---- MODULE Spec2Model ----
(***************************************************************************)
(* A model of the battle resolution engine of src/BrokemonBattle.py:       *)
(* the status dictionary of a Pokemon, the effect functions, the damage    *)
(* formula, perform_move, apply_end_of_turn and the battle loops            *)
(* battle_pvp, battle_1v3 and battle_vgc.                                   *)
(*                                                                         *)
(* Randomness (random.random, random.uniform, random.choice) is a          *)
(* nondeterministic choice.  random.uniform(0.85, 1.15) is drawn from      *)
(* Variances, in twentieths, and every product of the damage formula is    *)
(* computed exactly over the integers; Python computes it in binary        *)
(* floating point, which can differ by one unit only where the exact       *)
(* value is an integer.                                                    *)
(***************************************************************************)
EXTENDS Integers, Sequences, FiniteSets, TLC

VARIABLES
    mode,           \* which battle loop runs: "pvp", "1v3" or "vgc"
    pc,             \* the position of the battle loop
    player1_team,   \* List[Pokemon] of player 1 (the player in battle_1v3)
    player2_team,   \* List[Pokemon] of player 2 (enemy_team in battle_1v3)
    p1_active,      \* <<p1_idx>> in the single formats, p1_active in battle_vgc
    p2_active,      \* <<p2_idx>> / <<enemy_idx>> / p2_active
    all_actions,    \* battle_vgc: the actions requested in this turn
    turn_count,     \* the number of the current turn
    last,           \* history: the last call of perform_move and its result
    records,        \* the (winner, loser) pairs handed to update_stats
    winner_player,  \* the winner announced: 1, 2, 0 for a draw, -1 before the end
    pm_args,        \* perform_move harness: the arguments drawn
    cd_args,        \* compute_damage harness: the arguments drawn
    cd_ret,         \* compute_damage harness: the value returned
    poke,           \* status harness: the Pokemon the effects are applied to
    law,            \* status harness: what the stacking law predicts
    stats,          \* the statistics store kept in STATS_FILE
    heap            \* roster harness: the Pokemon objects and the status dicts

battle_vars == <<mode, pc, player1_team, player2_team, p1_active, p2_active,
                 all_actions, turn_count, records, winner_player>>
move_vars == <<pm_args, last>>
damage_vars == <<cd_args, cd_ret>>
status_vars == <<poke, law>>
stats_vars == <<stats>>
roster_vars == <<heap>>
vars == <<battle_vars, move_vars, damage_vars, status_vars, stats_vars, roster_vars>>

(***************************************************************************)
(* Bounds of the model.                                                    *)
(***************************************************************************)
MaxTurns == 2       \* battle loops: turns played before the model stops
MaxApply == 3       \* status harness: effect applications in one run
MaxAmount == 2      \* status harness: largest amount / dmg_per_turn applied
MaxDuration == 2    \* status harness: largest turns argument applied
MaxMatches == 3     \* statistics harness: no call once a record has this many matches
MaxOps == 3         \* roster harness: battle operations after the teams are picked

(***************************************************************************)
(* Program constants.                                                      *)
(***************************************************************************)
PassRegen == 5
SwitchRegen == 8
TurnRegen == 3

(***************************************************************************)
(* Python dict operations on Pokemon.status.  A status is a function whose *)
(* domain is the set of keys present.                                      *)
(***************************************************************************)
EmptyStatus == [k \in {} |-> 0]
Get(s, k, d) == IF k \in DOMAIN s THEN s[k] ELSE d
Put(s, k, v) == [x \in (DOMAIN s) \cup {k} |-> IF x = k THEN v ELSE s[x]]
Pop(s, k) == [x \in (DOMAIN s) \ {k} |-> s[x]]

Min(a, b) == IF a < b THEN a ELSE b
Max(a, b) == IF a > b THEN a ELSE b
Abs(a) == IF a < 0 THEN 0 - a ELSE a

alive(p) == p.hp > 0

(***************************************************************************)
(* Effects / status functions (src lines 1077-1146).  Each takes the       *)
(* Pokemon it changes and returns it changed.                              *)
(***************************************************************************)
\* def_lower storing its arguments instead of adding them
def_lower_replace(pokemon, amount, turns) ==
    [pokemon EXCEPT !.status = Put(Put(@, "def_down", turns), "def_down_amt", amount)]

def_lower(pokemon, amount, turns) ==
    LET s1 == Put(pokemon.status, "def_down", Get(pokemon.status, "def_down", 0) + turns)
        s2 == Put(s1, "def_down_amt", Get(s1, "def_down_amt", 0) + amount)
    IN  [pokemon EXCEPT !.status = s2]

def_boost(pokemon, amount, turns) ==
    LET s1 == Put(pokemon.status, "def_up", Get(pokemon.status, "def_up", 0) + turns)
        s2 == Put(s1, "def_up_amt", Get(s1, "def_up_amt", 0) + amount)
    IN  [pokemon EXCEPT !.status = s2]

speed_boost(pokemon, amount, turns) ==
    IF amount > 0
    THEN LET s1 == Put(pokemon.status, "spd_up", Get(pokemon.status, "spd_up", 0) + turns)
             s2 == Put(s1, "spd_up_amt", Get(s1, "spd_up_amt", 0) + amount)
         IN  [pokemon EXCEPT !.status = s2]
    ELSE LET s1 == Put(pokemon.status, "spd_down", Get(pokemon.status, "spd_down", 0) + turns)
             s2 == Put(s1, "spd_down_amt", Get(s1, "spd_down_amt", 0) + Abs(amount))
         IN  [pokemon EXCEPT !.status = s2]

atk_boost(pokemon, amount, turns) ==
    LET s1 == Put(pokemon.status, "atk_up", Get(pokemon.status, "atk_up", 0) + turns)
        s2 == Put(s1, "atk_up_amt", Get(s1, "atk_up_amt", 0) + amount)
    IN  [pokemon EXCEPT !.status = s2]

apply_poison(target, dmg_per_turn, turns) ==
    [target EXCEPT !.status = Put(@, "poison", [dmg |-> dmg_per_turn, turns |-> turns])]

apply_paralysis(target, turns) ==
    [target EXCEPT !.status = Put(@, "paralysis", [turns |-> turns])]

apply_burn(target, dmg_per_turn, turns) ==
    [target EXCEPT !.status = Put(@, "burn", [dmg |-> dmg_per_turn, turns |-> turns])]

\* heal without min(max_hp, ...)
heal_uncapped(pokemon, amount) ==
    [pokemon EXCEPT !.hp = pokemon.hp + amount]

heal(pokemon, amount) ==
    [pokemon EXCEPT !.hp = Min(pokemon.max_hp, pokemon.hp + amount)]

\* int(target.max_hp * (percent / 100)), computed exactly
deal_percent_max_hp(target, percent) ==
    LET dmg == (target.max_hp * percent) \div 100
    IN  [target EXCEPT !.hp = Max(0, target.hp - dmg)]

double_hit_if_faster(attacker, defender) ==
    IF attacker.spd > defender.spd THEN 2 ELSE 1

\* (defender.hp / defender.max_hp) * 100 >= threshold
bonus_damage_if_hp_above(attacker, defender, threshold) ==
    IF defender.hp * 100 >= threshold * defender.max_hp THEN 2 ELSE 1

(***************************************************************************)
(* Damage formula (src lines 1151-1176).  variance is in twentieths        *)
(* (17 for 0.85, 20 for 1.0, 23 for 1.15); crit is random.random() < 0.07. *)
(***************************************************************************)
Variances == {17, 20, 23}

def_effective(defender) ==
    LET d1 == IF Get(defender.status, "def_down", 0) > 0
              THEN Max(1, defender.dfns - Get(defender.status, "def_down_amt", 0))
              ELSE defender.dfns
    IN  IF Get(defender.status, "def_up", 0) > 0
        THEN d1 + Get(defender.status, "def_up_amt", 0)
        ELSE d1

atk_effective(attacker) ==
    IF Get(attacker.status, "atk_up", 0) > 0
    THEN attacker.atk + Get(attacker.status, "atk_up_amt", 0)
    ELSE attacker.atk

\* int(x * 1.8)
CritDamage(dmg) == (dmg * 9) \div 5

\* compute_damage without the early return for power <= 0
compute_damage_no_early_return(attacker, defender, move, variance, crit) ==
    LET num == move.power * atk_effective(attacker)
               * (200 + attacker.lvl - defender.lvl) * variance
        den == Max(1, def_effective(defender)) * 200 * 20
        dmg == IF num < den THEN 1 ELSE num \div den
    IN  [dmg |-> IF crit THEN CritDamage(dmg) ELSE dmg, crit |-> crit]

\* compute_damage without max(1, ...)
compute_damage_unclamped(attacker, defender, move, variance, crit) ==
    IF move.power <= 0
    THEN [dmg |-> 0, crit |-> FALSE]
    ELSE LET num == move.power * atk_effective(attacker)
                    * (200 + attacker.lvl - defender.lvl) * variance
             den == Max(1, def_effective(defender)) * 200 * 20
             dmg == num \div den
         IN  [dmg |-> IF crit THEN CritDamage(dmg) ELSE dmg, crit |-> crit]

\* compute_damage without the level factor
compute_damage_no_level(attacker, defender, move, variance, crit) ==
    IF move.power <= 0
    THEN [dmg |-> 0, crit |-> FALSE]
    ELSE LET num == move.power * atk_effective(attacker) * 200 * variance
             den == Max(1, def_effective(defender)) * 200 * 20
             dmg == IF num < den THEN 1 ELSE num \div den
         IN  [dmg |-> IF crit THEN CritDamage(dmg) ELSE dmg, crit |-> crit]

compute_damage(attacker, defender, move, variance, crit) ==
    IF move.power <= 0
    THEN [dmg |-> 0, crit |-> FALSE]
    ELSE LET num == move.power * atk_effective(attacker)
                    * (200 + attacker.lvl - defender.lvl) * variance
             den == Max(1, def_effective(defender)) * 200 * 20
             \* int(max(1, raw * variance))
             dmg == IF num < den THEN 1 ELSE num \div den
         IN  [dmg |-> IF crit THEN CritDamage(dmg) ELSE dmg, crit |-> crit]

(***************************************************************************)
(* End-of-turn processing (src lines 1644-1683).                           *)
(***************************************************************************)
\* the poison / burn tick without max(0, ...)
TickDot_unfloored(p, key) ==
    LET e == Get(p.status, key, [dmg |-> 0, turns |-> 0])
    IN  IF key \in DOMAIN p.status /\ e.turns > 0
        THEN LET left == e.turns - 1
             IN  [p EXCEPT !.hp = p.hp - e.dmg,
                           !.status = IF left <= 0 THEN Pop(@, key)
                                      ELSE Put(@, key, [e EXCEPT !.turns = left])]
        ELSE p

TickDot(p, key) ==
    LET e == Get(p.status, key, [dmg |-> 0, turns |-> 0])
    IN  IF key \in DOMAIN p.status /\ e.turns > 0
        THEN LET left == e.turns - 1
             IN  [p EXCEPT !.hp = Max(0, p.hp - e.dmg),
                           !.status = IF left <= 0 THEN Pop(@, key)
                                      ELSE Put(@, key, [e EXCEPT !.turns = left])]
        ELSE p

\* the keys the loop over poke.status decrements: the int-valued ones that
\* do not end in "_amt"
DurationKeys == {"def_down", "def_up", "spd_up", "spd_down", "atk_up"}
AmtKey(key) ==
    CASE key = "def_down" -> "def_down_amt"
      [] key = "def_up" -> "def_up_amt"
      [] key = "spd_up" -> "spd_up_amt"
      [] key = "spd_down" -> "spd_down_amt"
      [] key = "atk_up" -> "atk_up_amt"

\* the duration loop popping the key without its "_amt" key
TickDurations_keep_amt(p) ==
    LET s == p.status
        gone == {k \in DurationKeys \cap DOMAIN s : s[k] - 1 <= 0}
    IN  [p EXCEPT !.status =
            [k \in (DOMAIN s) \ gone |->
                IF k \in DurationKeys THEN s[k] - 1 ELSE s[k]]]

TickDurations(p) ==
    LET s == p.status
        gone == {k \in DurationKeys \cap DOMAIN s : s[k] - 1 <= 0}
        drop == gone \cup {AmtKey(k) : k \in gone}
    IN  [p EXCEPT !.status =
            [k \in (DOMAIN s) \ drop |->
                IF k \in DurationKeys THEN s[k] - 1 ELSE s[k]]]

TickParalysis(p) ==
    LET e == Get(p.status, "paralysis", [turns |-> 0])
    IN  IF "paralysis" \in DOMAIN p.status /\ e.turns > 0
        THEN IF e.turns - 1 <= 0
             THEN [p EXCEPT !.status = Pop(@, "paralysis")]
             ELSE [p EXCEPT !.status = Put(@, "paralysis", [turns |-> e.turns - 1])]
        ELSE p

\* apply_end_of_turn without "if not poke.alive(): return"
apply_end_of_turn_on_fainted(p) ==
    TickParalysis(TickDurations(TickDot(TickDot(p, "poison"), "burn")))

apply_end_of_turn(p) ==
    IF ~alive(p) THEN p
    ELSE TickParalysis(TickDurations(TickDot(TickDot(p, "poison"), "burn")))

(***************************************************************************)
(* Data classes (src lines 228-257).  Pokemon(...) is the dataclass        *)
(* constructor with __post_init__: hp and energy start at their maxima and *)
(* status is a fresh empty dict.  The moves of a Pokemon are looked up by  *)
(* its name (MovesOf, below).                                              *)
(***************************************************************************)
Pokemon(name, lvl, max_hp, atk, dfns, spd, energy_max) ==
    [name |-> name, lvl |-> lvl, max_hp |-> max_hp, atk |-> atk, dfns |-> dfns,
     spd |-> spd, energy_max |-> energy_max,
     hp |-> max_hp, energy |-> energy_max, status |-> EmptyStatus]

NoEffect == [fn |-> "none", on |-> "none", a |-> 0, t |-> 0]
Effect(fn, on, a, t) == [fn |-> fn, on |-> on, a |-> a, t |-> t]
Move(name, power, energy_cost, category, effect) ==
    [name |-> name, power |-> power, energy_cost |-> energy_cost,
     category |-> category, effect |-> effect]

(***************************************************************************)
(* The roster of the model: seven Pokemon with small statistics, each with *)
(* two moves whose categories and effects are taken from ROSTER (src lines *)
(* 262-846); the first four have one damaging move and one status move,    *)
(* the fifth has the speed of the third, as HexaBreak has the speed of     *)
(* BronBULL, and two damaging moves.  Bull has two of the four moves of    *)
(* BronBULL and Claw, the sixth, the other two: the one that burns and the *)
(* one whose hook heals the defender by more than the move takes.  Wing    *)
(* has two moves of CuteWings: Feather Stake, of category "status" with a  *)
(* power above 0, is the one move of ROSTER that battle_vgc queues as an   *)
(* attack and that writes a speed status.  An effect is the status         *)
(* function its lambda calls, the Pokemon it is called on (atk_p or def_p) *)
(* and its arguments.                                                      *)
(***************************************************************************)
ROSTER ==
    <<Pokemon("Volt", 5, 2, 2, 2, 4, 6),
      Pokemon("Moss", 5, 2, 2, 2, 3, 6),
      Pokemon("Bull", 6, 2, 2, 3, 2, 6),
      Pokemon("Ember", 4, 2, 3, 2, 1, 6),
      Pokemon("Hexa", 6, 2, 2, 2, 2, 6),
      Pokemon("Claw", 6, 2, 2, 3, 2, 6),
      Pokemon("Wing", 5, 2, 2, 2, 1, 6)>>

MovesOf(name) ==
    CASE name = "Volt" ->
            <<Move("Code Blast", 1, 3, "special",
                   Effect("deal_percent_max_hp", "def_p", 50, 0)),
              Move("Curse", 0, 2, "status", Effect("def_lower", "def_p", 1, 2))>>
      [] name = "Moss" ->
            <<Move("Bleed Wind", 1, 4, "special-status",
                   Effect("apply_poison", "def_p", 1, 2)),
              Move("Cleanse", 0, 3, "status", Effect("heal", "atk_p", 1, 0))>>
      [] name = "Bull" ->
            <<Move("Devastating Raid", 1, 3, "mystical-special-status",
                   Effect("deal_percent_max_hp", "def_p", 50, 0)),
              Move("Iron Wall", 0, 2, "status", Effect("def_boost", "atk_p", 1, 2))>>
      [] name = "Ember" ->
            <<Move("Thunder Shock", 1, 5, "special-status",
                   Effect("apply_paralysis", "def_p", 0, 2)),
              Move("Agility", 0, 5, "status", Effect("speed_boost", "atk_p", 1, 2))>>
      [] name = "Hexa" ->
            <<Move("Hex Strike", 1, 3, "physical",
                   Effect("deal_percent_max_hp", "def_p", 36, 0)),
              Move("Kernel Panic", 1, 4, "mystical-special",
                   Effect("bonus_damage_if_hp_above", "def_p", 20, 0))>>
      [] name = "Claw" ->
            <<Move("Steel Claw", 1, 3, "physical-status",
                   Effect("heal", "def_p", 2, 0)),
              Move("Flaming Breath", 1, 2, "special-status",
                   Effect("apply_burn", "def_p", 1, 2))>>
      [] name = "Wing" ->
            <<Move("Dusty Waves", 1, 4, "special",
                   Effect("deal_percent_max_hp", "def_p", 25, 0)),
              Move("Feather Stake", 1, 2, "status",
                   Effect("speed_boost", "def_p", 2, 2))>>

\* pick_team's clone of a roster entry (src lines 1936-1947)
Clone(original) ==
    Pokemon(original.name, original.lvl, original.max_hp, original.atk,
            original.dfns, original.spd, original.energy_max)

(***************************************************************************)
(* move.effect(stdscr, color_mgr, attacker, defender): the two Pokemon as  *)
(* the call leaves them.  Every effect of the source is a lambda that      *)
(* returns what its status function returns, None or the int of            *)
(* bonus_damage_if_hp_above, never a tuple.                                *)
(***************************************************************************)
EffectOn(e, p) ==
    CASE e.fn = "def_lower" -> def_lower(p, e.a, e.t)
      [] e.fn = "def_boost" -> def_boost(p, e.a, e.t)
      [] e.fn = "speed_boost" -> speed_boost(p, e.a, e.t)
      [] e.fn = "atk_boost" -> atk_boost(p, e.a, e.t)
      [] e.fn = "apply_poison" -> apply_poison(p, e.a, e.t)
      [] e.fn = "apply_paralysis" -> apply_paralysis(p, e.t)
      [] e.fn = "apply_burn" -> apply_burn(p, e.a, e.t)
      [] e.fn = "heal" -> heal(p, e.a)
      [] e.fn = "deal_percent_max_hp" -> deal_percent_max_hp(p, e.a)
      [] OTHER -> p

\* result = move.effect(...): the int of bonus_damage_if_hp_above, 0 for None
EffectResult(e, atk_p, def_p) ==
    IF e.fn = "bonus_damage_if_hp_above"
    THEN bonus_damage_if_hp_above(atk_p, def_p, e.a)
    ELSE 0

CallEffect(e, atk_p, def_p) ==
    IF e.fn = "none"
    THEN [atk_p |-> atk_p, def_p |-> def_p, result |-> 0]
    ELSE IF e.on = "atk_p"
         THEN [atk_p |-> EffectOn(e, atk_p), def_p |-> def_p,
               result |-> EffectResult(e, atk_p, def_p)]
         ELSE [atk_p |-> atk_p, def_p |-> EffectOn(e, def_p),
               result |-> EffectResult(e, atk_p, def_p)]

(***************************************************************************)
(* perform_move (src lines 1523-1642).  roll holds the random draws: para  *)
(* (random.random() < 0.25), variance and crit.  The value holds the two   *)
(* Pokemon as the call leaves them and, for the properties, what happened: *)
(* result, the draws (roll), whether compute_damage ran and its damage     *)
(* (formula), whether                                                      *)
(* the effect ran (hooked), what it returned (hook_result) and the         *)
(* defender's hp right after it (hook_hp).  The isinstance(result, tuple)  *)
(* branches never run (no effect returns a tuple, hook_result is an int or *)
(* None) and are left out: dmg stays what compute_damage returned.         *)
(***************************************************************************)
\* the energy check against energy_max instead of the current energy
insufficient_energy_of_max(attacker, move) == move.energy_cost > attacker.energy_max

\* if move.energy_cost > attacker.energy
insufficient_energy(attacker, move) == move.energy_cost > attacker.energy

IsParalyzed(p) ==
    "paralysis" \in DOMAIN p.status /\ p.status["paralysis"].turns > 0

\* animate_hp_drain (src lines 1483-1521): the hp it leaves
animate_hp_drain(target_pokemon, damage) ==
    [target_pokemon EXCEPT !.hp = Max(0, target_pokemon.hp - damage)]

\* the deduction skipped for a move of category "status"
spend_energy_free_status(attacker, move) ==
    IF move.category = "status" THEN attacker
    ELSE [attacker EXCEPT !.energy = Max(0, attacker.energy - move.energy_cost)]

\* "Deduct energy": attacker.energy = max(0, attacker.energy - move.energy_cost)
spend_energy(attacker, move) ==
    [attacker EXCEPT !.energy = Max(0, attacker.energy - move.energy_cost)]

\* what perform_move returns when it stops before the move is used
NotUsed(attacker, defender, result, roll) ==
    [attacker |-> attacker, defender |-> defender, result |-> result, roll |-> roll,
     computed |-> FALSE, formula |-> 0, hooked |-> FALSE,
     hook_result |-> 0, hook_hp |-> defender.hp]

\* the damage computed after the effect ran, from the statuses it left
use_move_hook_first(attacker, defender, move, roll) ==
    LET a1 == spend_energy(attacker, move)
        h == CallEffect(move.effect, a1, defender)
    IN  IF move.category = "status"
        THEN [attacker |-> h.atk_p, defender |-> h.def_p, result |-> "used",
              roll |-> roll, computed |-> FALSE, formula |-> 0,
              hooked |-> move.effect.fn # "none",
              hook_result |-> h.result, hook_hp |-> h.def_p.hp]
        ELSE LET cd == compute_damage(h.atk_p, h.def_p, move, roll.variance, roll.crit)
             IN  [attacker |-> h.atk_p,
                  defender |-> IF cd.dmg > 0 THEN animate_hp_drain(h.def_p, cd.dmg)
                               ELSE h.def_p,
                  result |-> "used", roll |-> roll,
                  computed |-> TRUE, formula |-> cd.dmg,
                  hooked |-> move.effect.fn # "none",
                  hook_result |-> h.result, hook_hp |-> h.def_p.hp]

\* perform_move from "Deduct energy" on (src lines 1541-1642)
use_move(attacker, defender, move, roll) ==
    LET a1 == spend_energy(attacker, move)
        h == CallEffect(move.effect, a1, defender)
    IN  IF move.category = "status"
        THEN [attacker |-> h.atk_p, defender |-> h.def_p, result |-> "used",
              roll |-> roll, computed |-> FALSE, formula |-> 0,
              hooked |-> move.effect.fn # "none",
              hook_result |-> h.result, hook_hp |-> h.def_p.hp]
        ELSE LET cd == compute_damage(a1, defender, move, roll.variance, roll.crit)
             IN  [attacker |-> h.atk_p,
                  defender |-> IF cd.dmg > 0 THEN animate_hp_drain(h.def_p, cd.dmg)
                               ELSE h.def_p,
                  result |-> "used", roll |-> roll,
                  computed |-> TRUE, formula |-> cd.dmg,
                  hooked |-> move.effect.fn # "none",
                  hook_result |-> h.result, hook_hp |-> h.def_p.hp]

\* perform_move with the energy check before the paralysis check
perform_move_energy_first(attacker, defender, move, roll) ==
    IF insufficient_energy(attacker, move)
    THEN NotUsed(attacker, defender, "lacked_energy", roll)
    ELSE IF IsParalyzed(attacker) /\ roll.para
    THEN NotUsed(attacker, defender, "fully_paralyzed", roll)
    ELSE use_move(attacker, defender, move, roll)

perform_move(attacker, defender, move, roll) ==
    IF IsParalyzed(attacker) /\ roll.para
    THEN NotUsed(attacker, defender, "fully_paralyzed", roll)
    ELSE IF insufficient_energy(attacker, move)
    THEN NotUsed(attacker, defender, "lacked_energy", roll)
    ELSE use_move(attacker, defender, move, roll)

\* the draws a call of perform_move can make
Rolls(attacker, move) ==
    {[para |-> pa, variance |-> v, crit |-> c] :
        pa \in (IF IsParalyzed(attacker) THEN BOOLEAN ELSE {FALSE}),
        v \in (IF move.category # "status" /\ move.power > 0 THEN Variances ELSE {20}),
        c \in (IF move.category # "status" /\ move.power > 0 THEN BOOLEAN ELSE {FALSE})}

NoLast == [called |-> FALSE]

\* the roster harness not running: no object
NoHeap == [objects |-> <<>>]

\* what the history variable keeps of a call
Called(attacker, defender, move, r) ==
    [called |-> TRUE, attacker |-> attacker, defender |-> defender, move |-> move,
     result |-> r.result, roll |-> r.roll,
     attacker_after |-> r.attacker, defender_after |-> r.defender,
     computed |-> r.computed, formula |-> r.formula,
     hooked |-> r.hooked, hook_result |-> r.hook_result, hook_hp |-> r.hook_hp]

(***************************************************************************)
(* Harness of compute_damage: the arguments are drawn in the initial       *)
(* state, the statuses being built by the effect functions, and one step   *)
(* calls the function.  The values hold the scenario of the specification  *)
(* (attack 1824, defense 1102, power 40) and small edge values.            *)
(***************************************************************************)
Attacks == {1, 3, 1824}
Defenses == {1, 2, 1102}
Levels == {97, 104, 200}
Powers == {0, 1, 40}
DefDownAmounts == {0, 2, 1250}      \* 0: def_lower was not applied
DefUpAmounts == {0, 2}              \* 0: def_boost was not applied
AtkUpAmounts == {0, 300}            \* 0: atk_boost was not applied

HarnessAttacker(atk, lvl, up) ==
    LET p == Pokemon("A", lvl, 10, atk, 1, 1, 10)
    IN  IF up > 0 THEN atk_boost(p, up, 4) ELSE p

HarnessDefender(dfns, lvl, down, up) ==
    LET p == Pokemon("D", lvl, 10, 1, dfns, 1, 10)
        q == IF down > 0 THEN def_lower(p, down, 6) ELSE p
    IN  IF up > 0 THEN def_boost(q, up, 3) ELSE q

NoDamageRet == [called |-> FALSE, dmg |-> 0, crit |-> FALSE, def_used |-> 0]

DamageArgs ==
    {[attacker |-> HarnessAttacker(a, la, au),
      defender |-> HarnessDefender(d, ld, dd, du),
      move |-> Move("M", pw, 0, "physical", NoEffect),
      variance |-> v, crit |-> c] :
        a \in Attacks, la \in Levels, au \in AtkUpAmounts,
        d \in Defenses, ld \in Levels, dd \in DefDownAmounts,
        du \in DefUpAmounts, pw \in Powers, v \in Variances, c \in BOOLEAN}

\* dmg, crit = compute_damage(attacker, defender, move); def_used records
\* the divisor max(1, def_effective) of the ratio
CallComputeDamage ==
    /\ ~cd_ret.called
    /\ LET r == compute_damage(cd_args.attacker, cd_args.defender, cd_args.move,
                               cd_args.variance, cd_args.crit)
       IN  cd_ret' = [called |-> TRUE, dmg |-> r.dmg, crit |-> r.crit,
                      def_used |-> Max(1, def_effective(cd_args.defender))]
    /\ UNCHANGED cd_args

(***************************************************************************)
(* Harness of the status functions and apply_end_of_turn: effects are      *)
(* applied to one Pokemon and end-of-turn ticks run on it, in any order.   *)
(* law is what the stacking law of the specification predicts for each     *)
(* kind: an application adds its amount (dmg_per_turn) and its turns, a    *)
(* tick on a living Pokemon takes one turn off every kind present and      *)
(* removes the kind whose turns reach 0.  law.only follows one application *)
(* of poison to a Pokemon without poison or burn: the hp before it, its    *)
(* arguments and the ticks since.                                          *)
(***************************************************************************)
DotKeys == {"poison", "burn"}
LawKinds == DurationKeys \cup DotKeys \cup {"paralysis"}
HarnessHps == {0, 1, 3, 20}
Amounts == 1 .. MaxAmount
Durations == 1 .. MaxDuration
DotArgs == (Amounts \X Durations) \cup {<<6, 3>>}

NoOnly == [state |-> "none", hp0 |-> 0, dmg |-> 0, turns |-> 0, ticks |-> 0]

LawApply(k, a, t) ==
    [law EXCEPT !.n = @ + 1, !.op = "apply",
                !.amt[k] = @ + a, !.turns[k] = @ + t, !.cnt[k] = @ + 1,
                !.only = IF k \in DotKeys
                         THEN IF k = "poison" /\ law.only.state = "none"
                                 /\ DOMAIN poke.status \cap DotKeys = {}
                              THEN [state |-> "on", hp0 |-> poke.hp, dmg |-> a,
                                    turns |-> t, ticks |-> 0]
                              ELSE [NoOnly EXCEPT !.state = "void"]
                         ELSE @]

OnlyTick ==
    IF law.only.state = "on"
    THEN IF law.only.ticks < law.only.turns
         THEN [law.only EXCEPT !.ticks = @ + 1]
         ELSE [NoOnly EXCEPT !.state = "past"]
    ELSE law.only

LawTick ==
    IF ~alive(poke)
    THEN [law EXCEPT !.op = "tick", !.only = OnlyTick]
    ELSE [law EXCEPT !.op = "tick", !.only = OnlyTick,
                     !.turns = [k \in LawKinds |-> Max(0, law.turns[k] - 1)],
                     !.amt = [k \in LawKinds |-> IF law.turns[k] <= 1 THEN 0 ELSE law.amt[k]],
                     !.cnt = [k \in LawKinds |-> IF law.turns[k] <= 1 THEN 0 ELSE law.cnt[k]]]

ApplyDefLower ==
    \E a \in Amounts, t \in Durations :
        /\ law.n < MaxApply
        /\ poke' = def_lower(poke, a, t)
        /\ law' = LawApply("def_down", a, t)

ApplyDefBoost ==
    \E a \in Amounts, t \in Durations :
        /\ law.n < MaxApply
        /\ poke' = def_boost(poke, a, t)
        /\ law' = LawApply("def_up", a, t)

ApplySpeedBoost ==
    \E a \in Amounts, t \in Durations, sign \in {1, -1} :
        /\ law.n < MaxApply
        /\ poke' = speed_boost(poke, sign * a, t)
        /\ law' = LawApply(IF sign = 1 THEN "spd_up" ELSE "spd_down", a, t)

ApplyAtkBoost ==
    \E a \in Amounts, t \in Durations :
        /\ law.n < MaxApply
        /\ poke' = atk_boost(poke, a, t)
        /\ law' = LawApply("atk_up", a, t)

ApplyPoison ==
    \E x \in DotArgs :
        /\ law.n < MaxApply
        /\ poke' = apply_poison(poke, x[1], x[2])
        /\ law' = LawApply("poison", x[1], x[2])

ApplyBurn ==
    \E x \in DotArgs :
        /\ law.n < MaxApply
        /\ poke' = apply_burn(poke, x[1], x[2])
        /\ law' = LawApply("burn", x[1], x[2])

ApplyParalysis ==
    \E t \in Durations :
        /\ law.n < MaxApply
        /\ poke' = apply_paralysis(poke, t)
        /\ law' = LawApply("paralysis", 0, t)

\* a tick on an empty status or on a fainted Pokemon changes nothing; the
\* harness ticks a fainted Pokemon only while law.only counts the ticks
EndOfTurnTick ==
    /\ DOMAIN poke.status # {}
    /\ alive(poke) \/ (law.only.state = "on" /\ law.only.ticks < law.only.turns)
    /\ poke' = apply_end_of_turn(poke)
    /\ law' = LawTick

(***************************************************************************)
(* Harness of perform_move: attacker, defender and move are drawn in the   *)
(* initial state and one step calls the function.  The Pokemon are Cbroman *)
(* and HappyPIG of ROSTER (src lines 262-299); the moves range over power  *)
(* 0 and 40, the costs 38 and 80, three categories and the effects of the  *)
(* roster that change a status or an hp.                                   *)
(***************************************************************************)
HarnessEnergies == {0, 50, 1406}
HarnessDefenderHps == {0, 100, 1943}
HarnessCategories == {"status", "special", "physical-status"}
HarnessEffects ==
    {NoEffect,
     Effect("def_lower", "def_p", 2, 3),
     Effect("def_lower", "def_p", 42, 4),
     Effect("atk_boost", "atk_p", 300, 4),
     Effect("heal", "atk_p", 100, 0),
     Effect("heal", "def_p", 340, 0),
     Effect("deal_percent_max_hp", "def_p", 38, 0),
     Effect("bonus_damage_if_hp_above", "def_p", 30, 0),
     Effect("apply_poison", "def_p", 60, 5)}

MoveArgs ==
    {[drawn |-> TRUE,
      attacker |-> [(IF para THEN apply_paralysis(Pokemon("Cbroman", 104, 1758, 1824, 1102, 1387, 1406), 4)
                     ELSE Pokemon("Cbroman", 104, 1758, 1824, 1102, 1387, 1406))
                    EXCEPT !.energy = en, !.hp = 700],
      defender |-> [Pokemon("HappyPIG", 115, 1943, 2016, 1218, 1533, 1554) EXCEPT !.hp = hp],
      move |-> Move("M", pw, cost, cat, eff)] :
        para \in BOOLEAN, en \in HarnessEnergies, hp \in HarnessDefenderHps,
        pw \in {0, 40}, cost \in {38, 80}, cat \in HarnessCategories,
        eff \in HarnessEffects}

\* messages = perform_move(stdscr, color_mgr, attacker, defender, move, ...)
CallPerformMove ==
    /\ pm_args.drawn /\ ~last.called
    /\ \E roll \in Rolls(pm_args.attacker, pm_args.move) :
          last' = Called(pm_args.attacker, pm_args.defender, pm_args.move,
                         perform_move(pm_args.attacker, pm_args.defender,
                                      pm_args.move, roll))
    /\ UNCHANGED pm_args

(***************************************************************************)
(* The battle loops.  A team is the sequence of its Pokemon; indices count *)
(* from 1 here and from 0 in the source.  pc is the position in the body   *)
(* of the loop, every step running from one input (a menu, a prompt, a     *)
(* random draw) to the next.  turn_count numbers the iterations of the     *)
(* loop in all three formats; the model stops after MaxTurns iterations.   *)
(***************************************************************************)
AnyAlive(team) == \E i \in DOMAIN team : alive(team[i])
AliveIndices(team) == {i \in DOMAIN team : alive(team[i])}
FirstOf(S) == CHOOSE i \in S : \A j \in S : i <= j
LastOf(S) == CHOOSE i \in S : \A j \in S : i >= j
Regen(p, amount) == [p EXCEPT !.energy = Min(p.energy_max, p.energy + amount)]

\* a prompt that offers the fainted Pokemon too
prompt_switch_any(team) == DOMAIN team

\* if selected_idx == -1: return options[0]
prompt_switch_cancelled(team) == FirstOf(AliveIndices(team))

\* prompt_switch (src lines 1685-1712): the indices it can return; it returns
\* None when the set is empty, and options[0] when the menu is cancelled
prompt_switch(team) ==
    IF AliveIndices(team) = {} THEN {}
    ELSE AliveIndices(team) \cup {prompt_switch_cancelled(team)}

\* elif action == "Pass": return "pass", None, player_idx
pass_action(player_idx) == [type |-> "pass", move |-> 0, idx |-> player_idx]

\* 'q' in the action menu answered with the first move
cancel_action_first_move(player_idx) ==
    [type |-> "attack", move |-> 1, idx |-> player_idx]

\* elif key == ord('q'): return "pass", None, player_idx
cancel_action(player_idx) == [type |-> "pass", move |-> 0, idx |-> player_idx]

\* the switch menu listing every Pokemon of the team
get_player_action_switch_to_any(team, player_idx, can_switch) ==
    {[type |-> "attack", move |-> m, idx |-> player_idx] :
        m \in 1 .. Len(MovesOf(team[player_idx].name))}
    \cup {[type |-> "switch", move |-> 0, idx |-> i] :
        i \in IF can_switch /\ Cardinality(AliveIndices(team)) > 1
              THEN DOMAIN team ELSE {}}
    \cup {pass_action(player_idx)}
    \cup {cancel_action(player_idx)}

\* get_player_action (src lines 1313-1442): the (action, move, index) triples
\* it can return; 'q' in the action menu returns a pass
get_player_action(team, player_idx, can_switch) ==
    {[type |-> "attack", move |-> m, idx |-> player_idx] :
        m \in 1 .. Len(MovesOf(team[player_idx].name))}
    \cup {[type |-> "switch", move |-> 0, idx |-> i] :
        i \in IF can_switch /\ Cardinality(AliveIndices(team)) > 1
              THEN AliveIndices(team) \ {player_idx} ELSE {}}
    \cup {pass_action(player_idx)}
    \cup {cancel_action(player_idx)}

\* the teams and the active index of the acting side after its action, the
\* opposing team, and the call of perform_move if there was one
ExecuteAction(own, opp, own_idx, opp_idx, action, roll) ==
    IF action.type = "attack"
    THEN LET move == MovesOf(own[own_idx].name)[action.move]
             r == perform_move(own[own_idx], opp[opp_idx], move, roll)
         IN  [own |-> [own EXCEPT ![own_idx] = r.attacker],
              opp |-> [opp EXCEPT ![opp_idx] = r.defender],
              idx |-> own_idx,
              last |-> Called(own[own_idx], opp[opp_idx], move, r)]
    ELSE IF action.type = "switch"
    THEN [own |-> [own EXCEPT ![action.idx] = Regen(own[action.idx], SwitchRegen)],
          opp |-> opp, idx |-> action.idx, last |-> NoLast]
    ELSE [own |-> [own EXCEPT ![own_idx] = Regen(own[own_idx], PassRegen)],
          opp |-> opp, idx |-> own_idx, last |-> NoLast]

ActionRolls(team, idx, action) ==
    IF action.type = "attack"
    THEN Rolls(team[idx], MovesOf(team[idx].name)[action.move])
    ELSE {[para |-> FALSE, variance |-> 20, crit |-> FALSE]}

\* the end of the turn without the energy regeneration
EndOfTurnAt_without_regen(team, idx) ==
    [team EXCEPT ![idx] = apply_end_of_turn(team[idx])]

\* apply_end_of_turn and the energy regeneration of the Pokemon at idx
EndOfTurnAt(team, idx) ==
    [team EXCEPT ![idx] = Regen(apply_end_of_turn(team[idx]), TurnRegen)]

(***************************************************************************)
(* battle_pvp (src lines 1714-1902).                                       *)
(***************************************************************************)
\* the loop test and the check that player 1's active Pokemon is alive
battle_pvp_top ==
    /\ mode = "pvp" /\ pc = "top"
    /\ IF AnyAlive(player1_team) /\ AnyAlive(player2_team)
       THEN /\ turn_count <= MaxTurns
            /\ IF ~alive(player1_team[p1_active[1]])
               THEN \E i \in prompt_switch(player1_team) : p1_active' = <<i>>
               ELSE UNCHANGED p1_active
            /\ pc' = "p1_action"
       ELSE pc' = "winner" /\ UNCHANGED p1_active
    /\ last' = NoLast
    /\ UNCHANGED <<mode, player1_team, player2_team, p2_active, all_actions,
                   turn_count, records, winner_player, pm_args>>

\* get_player_action for player 1 and the execution of what it returned
battle_pvp_p1_action ==
    /\ mode = "pvp" /\ pc = "p1_action"
    /\ \E action \in get_player_action(player1_team, p1_active[1],
                                       Cardinality(AliveIndices(player1_team)) > 1) :
       \E roll \in ActionRolls(player1_team, p1_active[1], action) :
          LET x == ExecuteAction(player1_team, player2_team, p1_active[1],
                                 p2_active[1], action, roll)
          IN  /\ player1_team' = x.own
              /\ player2_team' = x.opp
              /\ p1_active' = <<x.idx>>
              /\ last' = x.last
    /\ pc' = "p2_check"
    /\ UNCHANGED <<mode, p2_active, all_actions, turn_count, records,
                   winner_player, pm_args>>

\* the check that leaves the loop when player 2 has no living Pokemon but
\* prompts no switch
battle_pvp_p2_check_without_prompt ==
    /\ mode = "pvp" /\ pc = "p2_check"
    /\ pc' = IF AnyAlive(player2_team) THEN "p2_action" ELSE "winner"
    /\ UNCHANGED <<mode, player1_team, player2_team, p1_active, p2_active,
                   all_actions, turn_count, records, winner_player, move_vars>>

\* "Check if Player 2 fainted" and the check that opens player 2's turn
battle_pvp_p2_check ==
    /\ mode = "pvp" /\ pc = "p2_check"
    /\ IF alive(player2_team[p2_active[1]])
       THEN pc' = "p2_action" /\ UNCHANGED p2_active
       ELSE IF ~AnyAlive(player2_team)
            THEN pc' = "winner" /\ UNCHANGED p2_active
            ELSE /\ \E i \in prompt_switch(player2_team) : p2_active' = <<i>>
                 /\ pc' = "p2_action"
    /\ UNCHANGED <<mode, player1_team, player2_team, p1_active, all_actions,
                   turn_count, records, winner_player, move_vars>>

battle_pvp_p2_action ==
    /\ mode = "pvp" /\ pc = "p2_action"
    /\ \E action \in get_player_action(player2_team, p2_active[1],
                                       Cardinality(AliveIndices(player2_team)) > 1) :
       \E roll \in ActionRolls(player2_team, p2_active[1], action) :
          LET x == ExecuteAction(player2_team, player1_team, p2_active[1],
                                 p1_active[1], action, roll)
          IN  /\ player2_team' = x.own
              /\ player1_team' = x.opp
              /\ p2_active' = <<x.idx>>
              /\ last' = x.last
    /\ pc' = "p1_check"
    /\ UNCHANGED <<mode, p1_active, all_actions, turn_count, records,
                   winner_player, pm_args>>

\* "Check if Player 1 fainted"
battle_pvp_p1_check ==
    /\ mode = "pvp" /\ pc = "p1_check"
    /\ IF alive(player1_team[p1_active[1]])
       THEN pc' = "end_of_turn" /\ UNCHANGED p1_active
       ELSE IF ~AnyAlive(player1_team)
            THEN pc' = "winner" /\ UNCHANGED p1_active
            ELSE /\ \E i \in prompt_switch(player1_team) : p1_active' = <<i>>
                 /\ pc' = "end_of_turn"
    /\ UNCHANGED <<mode, player1_team, player2_team, p2_active, all_actions,
                   turn_count, records, winner_player, move_vars>>

\* apply_end_of_turn on both active Pokemon, then the regeneration of both
battle_pvp_end_of_turn ==
    /\ mode = "pvp" /\ pc = "end_of_turn"
    /\ player1_team' = EndOfTurnAt(player1_team, p1_active[1])
    /\ player2_team' = EndOfTurnAt(player2_team, p2_active[1])
    /\ turn_count' = turn_count + 1
    /\ pc' = "top"
    /\ last' = NoLast
    /\ UNCHANGED <<mode, p1_active, p2_active, all_actions, records,
                   winner_player, pm_args>>

(***************************************************************************)
(* The statistics store (src lines 851-905): a dict from the name of a     *)
(* Pokemon to its record.  win_percentage, a float rounded to two          *)
(* decimals, is kept in hundredths of a percent: 66.67 is 6667.            *)
(***************************************************************************)
ZeroRecord == [wins |-> 0, losses |-> 0, matches |-> 0, win_percentage |-> 0]

\* load_stats() when STATS_FILE does not exist: a zero record for each
\* Pokemon of ROSTER
load_stats == [n \in {ROSTER[i].name : i \in DOMAIN ROSTER} |-> ZeroRecord]

\* round(x, 2) cut off instead of rounded
round2_truncated(wins, matches) == (wins * 10000) \div matches

\* round((wins / matches) * 100, 2) in hundredths: the nearest hundredth,
\* the even one when two are equally near
round2(wins, matches) ==
    LET q == (wins * 10000) \div matches
        r == (wins * 10000) % matches
    IN  IF 2 * r > matches THEN q + 1
        ELSE IF 2 * r < matches THEN q
        ELSE IF q % 2 = 0 THEN q ELSE q + 1

\* if name not in stats: stats[name] = {"wins": 0, ...}
with_record(st, name) == IF name \in DOMAIN st THEN st ELSE Put(st, name, ZeroRecord)

add_win(rec) == [rec EXCEPT !.wins = @ + 1, !.matches = @ + 1]

\* the loss counted without the match
add_loss_no_match(rec) == [rec EXCEPT !.losses = @ + 1]

add_loss(rec) == [rec EXCEPT !.losses = @ + 1, !.matches = @ + 1]

update_stats(st, winner, loser) ==
    LET s1 == with_record(st, winner)
        s2 == [s1 EXCEPT ![winner] = add_win(@)]
        s3 == with_record(s2, loser)
        s4 == [s3 EXCEPT ![loser] = add_loss(@)]
    IN  [n \in DOMAIN s4 |->
            [s4[n] EXCEPT !.win_percentage =
                IF s4[n].matches > 0 THEN round2(s4[n].wins, s4[n].matches) ELSE 0]]

\* stats = load_stats(); update_stats(stats, winner, loser) for the pair
\* found, if any; save_stats(stats)
save_stats(st, found) ==
    IF found = <<>> THEN st ELSE update_stats(st, found[1].winner, found[1].loser)

\* "Determine winner and update statistics": the winner is the first alive
\* Pokemon of the winning team, the loser the last fainted one of the other;
\* here the winner taken from the head of the team, alive or not
StatsRecord_first_listed(winners, losers) ==
    IF AliveIndices(winners) # {} /\ AliveIndices(losers) # DOMAIN losers
    THEN <<[winner |-> winners[1].name,
            loser |-> losers[LastOf(DOMAIN losers \ AliveIndices(losers))].name]>>
    ELSE <<>>

StatsRecord(winners, losers) ==
    IF AliveIndices(winners) # {} /\ AliveIndices(losers) # DOMAIN losers
    THEN <<[winner |-> winners[FirstOf(AliveIndices(winners))].name,
            loser |-> losers[LastOf(DOMAIN losers \ AliveIndices(losers))].name]>>
    ELSE <<>>

battle_pvp_winner ==
    /\ mode = "pvp" /\ pc = "winner"
    /\ IF AnyAlive(player1_team)
       THEN /\ winner_player' = 1
            /\ records' = records \o StatsRecord(player1_team, player2_team)
            /\ stats' = save_stats(stats, StatsRecord(player1_team, player2_team))
       ELSE /\ winner_player' = 2
            /\ records' = records \o StatsRecord(player2_team, player1_team)
            /\ stats' = save_stats(stats, StatsRecord(player2_team, player1_team))
    /\ pc' = "done"
    /\ UNCHANGED <<mode, player1_team, player2_team, p1_active, p2_active,
                   all_actions, turn_count, move_vars>>

(***************************************************************************)
(* battle_1v3 (src lines 1951-2093): player1_team is player_team,          *)
(* player2_team is enemy_team and p2_active holds enemy_idx.               *)
(***************************************************************************)
battle_1v3_top ==
    /\ mode = "1v3" /\ pc = "top"
    /\ IF AnyAlive(player1_team) /\ AnyAlive(player2_team)
       THEN /\ turn_count <= MaxTurns
            /\ IF ~alive(player1_team[p1_active[1]])
               THEN \E i \in prompt_switch(player1_team) : p1_active' = <<i>>
               ELSE UNCHANGED p1_active
            /\ pc' = "p1_action"
       ELSE pc' = "winner" /\ UNCHANGED p1_active
    /\ last' = NoLast
    /\ UNCHANGED <<mode, player1_team, player2_team, p2_active, all_actions,
                   turn_count, records, winner_player, pm_args>>

battle_1v3_player_action ==
    /\ mode = "1v3" /\ pc = "p1_action"
    /\ \E action \in get_player_action(player1_team, p1_active[1],
                                       Cardinality(AliveIndices(player1_team)) > 1) :
       \E roll \in ActionRolls(player1_team, p1_active[1], action) :
          LET x == ExecuteAction(player1_team, player2_team, p1_active[1],
                                 p2_active[1], action, roll)
          IN  /\ player1_team' = x.own
              /\ player2_team' = x.opp
              /\ p1_active' = <<x.idx>>
              /\ last' = x.last
    /\ pc' = "enemy_check"
    /\ UNCHANGED <<mode, p2_active, all_actions, turn_count, records,
                   winner_player, pm_args>>

\* the check leaving the loop as soon as the active enemy has fainted
battle_1v3_enemy_check_break_on_faint ==
    /\ mode = "1v3" /\ pc = "enemy_check"
    /\ pc' = IF alive(player2_team[p2_active[1]]) THEN "enemy_action" ELSE "winner"
    /\ UNCHANGED <<mode, player1_team, player2_team, p1_active, p2_active,
                   all_actions, turn_count, records, winner_player, move_vars>>

\* the last other enemy alive instead of the first
next_enemy_from_the_end(enemy_team, enemy_idx) ==
    LastOf(AliveIndices(enemy_team) \ {enemy_idx})

\* "Find next alive enemy": the first i != enemy_idx with enemy_team[i] alive
next_enemy(enemy_team, enemy_idx) ==
    FirstOf(AliveIndices(enemy_team) \ {enemy_idx})

\* "Check if current enemy fainted, switch to next available enemy"
battle_1v3_enemy_check ==
    /\ mode = "1v3" /\ pc = "enemy_check"
    /\ IF alive(player2_team[p2_active[1]])
       THEN pc' = "enemy_action" /\ UNCHANGED p2_active
       ELSE IF AliveIndices(player2_team) \ {p2_active[1]} = {}
            THEN pc' = "winner" /\ UNCHANGED p2_active
            ELSE /\ p2_active' = <<next_enemy(player2_team, p2_active[1])>>
                 /\ pc' = "enemy_action"
    /\ UNCHANGED <<mode, player1_team, player2_team, p1_active, all_actions,
                   turn_count, records, winner_player, move_vars>>

\* the enemy choosing among all its moves, payable or not
battle_1v3_enemy_action_any_move ==
    /\ mode = "1v3" /\ pc = "enemy_action"
    /\ LET enemy == player2_team[p2_active[1]]
           available_moves == 1 .. Len(MovesOf(enemy.name))
       IN  \E action \in IF available_moves # {}
                         THEN {[type |-> "attack", move |-> m, idx |-> p2_active[1]] :
                                  m \in available_moves}
                         ELSE {[type |-> "pass", move |-> 0, idx |-> p2_active[1]]} :
           \E roll \in ActionRolls(player2_team, p2_active[1], action) :
              LET x == ExecuteAction(player2_team, player1_team, p2_active[1],
                                     p1_active[1], action, roll)
              IN  /\ player2_team' = x.own
                  /\ player1_team' = x.opp
                  /\ last' = x.last
    /\ pc' = "p1_check"
    /\ UNCHANGED <<mode, p1_active, p2_active, all_actions, turn_count, records,
                   winner_player, pm_args>>

\* "Simple AI": random.choice among the moves the enemy can pay, a pass if
\* there is none
battle_1v3_enemy_action ==
    /\ mode = "1v3" /\ pc = "enemy_action"
    /\ LET enemy == player2_team[p2_active[1]]
           available_moves == {m \in 1 .. Len(MovesOf(enemy.name)) :
                                  MovesOf(enemy.name)[m].energy_cost <= enemy.energy}
       IN  \E action \in IF available_moves # {}
                         THEN {[type |-> "attack", move |-> m, idx |-> p2_active[1]] :
                                  m \in available_moves}
                         ELSE {[type |-> "pass", move |-> 0, idx |-> p2_active[1]]} :
           \E roll \in ActionRolls(player2_team, p2_active[1], action) :
              LET x == ExecuteAction(player2_team, player1_team, p2_active[1],
                                     p1_active[1], action, roll)
              IN  /\ player2_team' = x.own
                  /\ player1_team' = x.opp
                  /\ last' = x.last
    /\ pc' = "p1_check"
    /\ UNCHANGED <<mode, p1_active, p2_active, all_actions, turn_count, records,
                   winner_player, pm_args>>

battle_1v3_player_check ==
    /\ mode = "1v3" /\ pc = "p1_check"
    /\ IF alive(player1_team[p1_active[1]])
       THEN pc' = "end_of_turn" /\ UNCHANGED p1_active
       ELSE IF ~AnyAlive(player1_team)
            THEN pc' = "winner" /\ UNCHANGED p1_active
            ELSE /\ \E i \in prompt_switch(player1_team) : p1_active' = <<i>>
                 /\ pc' = "end_of_turn"
    /\ UNCHANGED <<mode, player1_team, player2_team, p2_active, all_actions,
                   turn_count, records, winner_player, move_vars>>

battle_1v3_end_of_turn ==
    /\ mode = "1v3" /\ pc = "end_of_turn"
    /\ player1_team' = EndOfTurnAt(player1_team, p1_active[1])
    /\ player2_team' = EndOfTurnAt(player2_team, p2_active[1])
    /\ turn_count' = turn_count + 1
    /\ pc' = "top"
    /\ last' = NoLast
    /\ UNCHANGED <<mode, p1_active, p2_active, all_actions, records,
                   winner_player, pm_args>>

\* "Determine winner": a message only, update_stats is not called
battle_1v3_winner ==
    /\ mode = "1v3" /\ pc = "winner"
    /\ winner_player' = IF AnyAlive(player1_team) THEN 1 ELSE 2
    /\ pc' = "done"
    /\ UNCHANGED <<mode, player1_team, player2_team, p1_active, p2_active,
                   all_actions, turn_count, records, move_vars>>

(***************************************************************************)
(* battle_vgc (src lines 2524-2717).  An action of all_actions names its   *)
(* Pokemon (action['pokemon'], action['target'], action['new_pokemon']) by *)
(* player and team index; action['slot'], which nothing reads, is left out.*)
(***************************************************************************)
TeamOfPlayer(player) == IF player = 1 THEN player1_team ELSE player2_team
Elems(seq) == {seq[i] : i \in DOMAIN seq}

\* the slot taking the first living Pokemon of the team, active or not
RefillSlot_any_living(team, active, i) ==
    IF i <= Len(active) /\ ~alive(team[active[i]]) /\ AliveIndices(team) # {}
    THEN [active EXCEPT ![i] = FirstOf(AliveIndices(team))]
    ELSE active

\* "Check if we need to force switch for fainted Pokemon": slot i of one
\* player takes available[0]
RefillSlot(team, active, i) ==
    IF i <= Len(active) /\ ~alive(team[active[i]])
       /\ AliveIndices(team) \ Elems(active) # {}
    THEN [active EXCEPT ![i] = FirstOf(AliveIndices(team) \ Elems(active))]
    ELSE active

Refill(team, active) == RefillSlot(team, RefillSlot(team, active, 1), 2)

\* move.category.endswith('-status'), over the categories of ROSTER
EndsWithStatus(category) ==
    category \in {"special-status", "physical-status", "mystical-special-status"}

\* elif key in [ord('p'), ord('P')]: 'type': 'pass'
vgc_pass_action(player, idx) ==
    [type |-> "pass", player |-> player, idx |-> idx, move |-> 0, target |-> 0]

\* elif key in [ord('q'), ord('Q'), 27]: "Back out (treated as pass)"
vgc_cancel_action(player, idx) ==
    [type |-> "pass", player |-> player, idx |-> idx, move |-> 0, target |-> 0]

\* get_vgc_action (src lines 2332-2457): the actions it can return
get_vgc_action(player, player_team, opponent_team, player_active, opponent_active, slot_idx) ==
    LET idx == player_active[slot_idx]
        pokemon == player_team[idx]
        moves == MovesOf(pokemon.name)
        payable == {m \in 1 .. Len(moves) : moves[m].energy_cost <= pokemon.energy}
        targeted == {m \in payable : moves[m].power > 0
                        \/ EndsWithStatus(moves[m].category)}
        available_targets == {opponent_active[i] : i \in
                                 {j \in DOMAIN opponent_active :
                                     alive(opponent_team[opponent_active[j]])}}
        available_switch == AliveIndices(player_team) \ Elems(player_active)
    IN  {[type |-> "attack", player |-> player, idx |-> idx, move |-> m,
          target |-> t] : m \in targeted, t \in available_targets}
        \cup {[type |-> "status", player |-> player, idx |-> idx, move |-> m,
               target |-> 0] : m \in payable \ targeted}
        \cup {[type |-> "switch", player |-> player, idx |-> idx, move |-> 0,
               target |-> n] : n \in available_switch}
        \cup {vgc_pass_action(player, idx)}
        \cup {vgc_cancel_action(player, idx)}

\* the sort key with the speed statuses added to spd
ActionSpd_with_modifiers(a) ==
    LET pokemon == TeamOfPlayer(a.player)[a.idx]
    IN  pokemon.spd + Get(pokemon.status, "spd_up_amt", 0)
                    - Get(pokemon.status, "spd_down_amt", 0)

\* all_actions.sort(key=lambda x: x['pokemon'].spd, reverse=True): stable
ActionSpd(a) == TeamOfPlayer(a.player)[a.idx].spd

\* the action placed before the ones of its own speed
InsertBySpd_before_equal(a, sorted) ==
    LET before == {i \in DOMAIN sorted : ActionSpd(sorted[i]) > ActionSpd(a)}
        n == IF before = {} THEN 0 ELSE LastOf(before)
    IN  SubSeq(sorted, 1, n) \o <<a>> \o SubSeq(sorted, n + 1, Len(sorted))

InsertBySpd(a, sorted) ==
    LET before == {i \in DOMAIN sorted : ActionSpd(sorted[i]) >= ActionSpd(a)}
        n == IF before = {} THEN 0 ELSE LastOf(before)
    IN  SubSeq(sorted, 1, n) \o <<a>> \o SubSeq(sorted, n + 1, Len(sorted))

\* the sort leaving the actions of one speed in the reverse of the order
\* in which they were requested
RECURSIVE SortBySpd_ties_reversed(_)
SortBySpd_ties_reversed(actions) ==
    IF actions = <<>> THEN <<>>
    ELSE InsertBySpd(Head(actions), SortBySpd_ties_reversed(Tail(actions)))

RECURSIVE SortBySpd(_)
SortBySpd(actions) ==
    IF actions = <<>> THEN <<>>
    ELSE InsertBySpd(actions[Len(actions)],
                     SortBySpd(SubSeq(actions, 1, Len(actions) - 1)))

\* the loop test and the replacement of the fainted active Pokemon, slot by
\* slot, player 1 before player 2
battle_vgc_top ==
    /\ mode = "vgc" /\ pc = "top"
    /\ IF AnyAlive(player1_team) /\ AnyAlive(player2_team)
       THEN /\ turn_count <= MaxTurns
            /\ p1_active' = Refill(player1_team, p1_active)
            /\ p2_active' = Refill(player2_team, p2_active)
            /\ pc' = "p1_slot1"
       ELSE pc' = "winner" /\ UNCHANGED <<p1_active, p2_active>>
    /\ all_actions' = <<>>
    /\ last' = NoLast
    /\ UNCHANGED <<mode, player1_team, player2_team, turn_count, records,
                   winner_player, pm_args>>

RequestOrder == <<"p1_slot1", "p1_slot2", "p2_slot1", "p2_slot2">>
RequestAt(position) == CHOOSE i \in DOMAIN RequestOrder : RequestOrder[i] = position

\* the request loops losing the action of the last slot
battle_vgc_request_last_not_kept ==
    /\ mode = "vgc" /\ pc \in Elems(RequestOrder)
    /\ LET n == RequestAt(pc)
           player == IF n <= 2 THEN 1 ELSE 2
           slot_idx == IF n \in {1, 3} THEN 1 ELSE 2
           own == IF player = 1 THEN player1_team ELSE player2_team
           opp == IF player = 1 THEN player2_team ELSE player1_team
           own_active == IF player = 1 THEN p1_active ELSE p2_active
           opp_active == IF player = 1 THEN p2_active ELSE p1_active
           requested == IF slot_idx <= Len(own_active) /\ alive(own[own_active[slot_idx]])
                        THEN {<<a>> : a \in get_vgc_action(player, own, opp, own_active,
                                                           opp_active, slot_idx)}
                        ELSE {<<>>}
       IN  \E action \in requested :
              IF n < 4
              THEN /\ all_actions' = all_actions \o action
                   /\ pc' = RequestOrder[n + 1]
              ELSE /\ all_actions' = SortBySpd(all_actions)
                   /\ pc' = "resolve"
    /\ UNCHANGED <<mode, player1_team, player2_team, p1_active, p2_active,
                   turn_count, records, winner_player, move_vars>>

\* one pass of the two request loops: get_vgc_action for a slot that holds a
\* living Pokemon; the last request is followed by the sort
battle_vgc_request ==
    /\ mode = "vgc" /\ pc \in Elems(RequestOrder)
    /\ LET n == RequestAt(pc)
           player == IF n <= 2 THEN 1 ELSE 2
           slot_idx == IF n \in {1, 3} THEN 1 ELSE 2
           own == IF player = 1 THEN player1_team ELSE player2_team
           opp == IF player = 1 THEN player2_team ELSE player1_team
           own_active == IF player = 1 THEN p1_active ELSE p2_active
           opp_active == IF player = 1 THEN p2_active ELSE p1_active
           requested == IF slot_idx <= Len(own_active) /\ alive(own[own_active[slot_idx]])
                        THEN {<<a>> : a \in get_vgc_action(player, own, opp, own_active,
                                                           opp_active, slot_idx)}
                        ELSE {<<>>}
       IN  \E action \in requested :
              IF n < 4
              THEN /\ all_actions' = all_actions \o action
                   /\ pc' = RequestOrder[n + 1]
              ELSE /\ all_actions' = SortBySpd(all_actions \o action)
                   /\ pc' = "resolve"
    /\ UNCHANGED <<mode, player1_team, player2_team, p1_active, p2_active,
                   turn_count, records, winner_player, move_vars>>

\* one pass of "for action in all_actions": only an attack is executed
battle_vgc_resolve ==
    /\ mode = "vgc" /\ pc = "resolve" /\ all_actions # <<>>
    /\ LET action == Head(all_actions)
           own == TeamOfPlayer(action.player)
           opp == TeamOfPlayer(3 - action.player)
       IN  IF action.type = "attack"
           THEN LET move == MovesOf(own[action.idx].name)[action.move]
                IN  \E roll \in Rolls(own[action.idx], move) :
                       LET r == perform_move(own[action.idx], opp[action.target], move, roll)
                           own2 == [own EXCEPT ![action.idx] = r.attacker]
                           opp2 == [opp EXCEPT ![action.target] = r.defender]
                       IN  /\ player1_team' = IF action.player = 1 THEN own2 ELSE opp2
                           /\ player2_team' = IF action.player = 1 THEN opp2 ELSE own2
                           /\ last' = Called(own[action.idx], opp[action.target], move, r)
           ELSE /\ UNCHANGED <<player1_team, player2_team>>
                /\ last' = NoLast
    /\ all_actions' = Tail(all_actions)
    /\ UNCHANGED <<mode, pc, p1_active, p2_active, turn_count, records,
                   winner_player, pm_args>>

\* "Apply end of turn effects to all active Pokemon" and their regeneration
RECURSIVE EndOfTurnAll(_, _)
EndOfTurnAll(team, active) ==
    IF active = <<>> THEN team
    ELSE EndOfTurnAll(EndOfTurnAt(team, Head(active)), Tail(active))

battle_vgc_end_of_turn ==
    /\ mode = "vgc" /\ pc = "resolve" /\ all_actions = <<>>
    /\ player1_team' = EndOfTurnAll(player1_team, p1_active)
    /\ player2_team' = EndOfTurnAll(player2_team, p2_active)
    /\ turn_count' = turn_count + 1
    /\ pc' = "top"
    /\ last' = NoLast
    /\ UNCHANGED <<mode, p1_active, p2_active, all_actions, records,
                   winner_player, pm_args>>

\* "Determine winner" and "Update stats": the first alive Pokemon of the
\* winner against the first fainted one of the loser
VgcStatsRecord(winners, losers) ==
    IF AliveIndices(winners) # {} /\ AliveIndices(losers) # DOMAIN losers
    THEN <<[winner |-> winners[FirstOf(AliveIndices(winners))].name,
            loser |-> losers[FirstOf(DOMAIN losers \ AliveIndices(losers))].name]>>
    ELSE <<>>

battle_vgc_winner ==
    /\ mode = "vgc" /\ pc = "winner"
    /\ IF AnyAlive(player1_team) /\ ~AnyAlive(player2_team)
       THEN /\ winner_player' = 1
            /\ records' = records \o VgcStatsRecord(player1_team, player2_team)
            /\ stats' = save_stats(stats, VgcStatsRecord(player1_team, player2_team))
       ELSE IF AnyAlive(player2_team) /\ ~AnyAlive(player1_team)
       THEN /\ winner_player' = 2
            /\ records' = records \o VgcStatsRecord(player2_team, player1_team)
            /\ stats' = save_stats(stats, VgcStatsRecord(player2_team, player1_team))
       ELSE /\ winner_player' = 0
            /\ UNCHANGED <<records, stats>>
    /\ pc' = "done"
    /\ UNCHANGED <<mode, player1_team, player2_team, p1_active, p2_active,
                   all_actions, turn_count, move_vars>>

(***************************************************************************)
(* The specifications of the harnesses.  The variables of the parts    *)
(* that do not run keep a fixed value.                                     *)
(***************************************************************************)
InitDamage ==
    /\ cd_args \in DamageArgs
    /\ cd_ret = NoDamageRet
    /\ poke = [name |-> "none"] /\ law = [n |-> 0]
    /\ stats = load_stats
    /\ heap = NoHeap
    /\ mode = "none" /\ pc = "idle"
    /\ player1_team = <<>> /\ player2_team = <<>>
    /\ p1_active = <<>> /\ p2_active = <<>>
    /\ all_actions = <<>> /\ turn_count = 0
    /\ records = <<>> /\ winner_player = 0 - 1
    /\ pm_args = [drawn |-> FALSE] /\ last = NoLast

NextDamage == CallComputeDamage /\ UNCHANGED <<battle_vars, move_vars, status_vars, stats_vars, roster_vars>>
SpecDamage == InitDamage /\ [][NextDamage]_vars

InitMove ==
    /\ pm_args \in MoveArgs
    /\ last = NoLast
    /\ cd_args = [called |-> FALSE] /\ cd_ret = NoDamageRet
    /\ poke = [name |-> "none"] /\ law = [n |-> 0]
    /\ stats = load_stats
    /\ heap = NoHeap
    /\ mode = "none" /\ pc = "idle"
    /\ player1_team = <<>> /\ player2_team = <<>>
    /\ p1_active = <<>> /\ p2_active = <<>>
    /\ all_actions = <<>> /\ turn_count = 0
    /\ records = <<>> /\ winner_player = 0 - 1

NextMove == CallPerformMove /\ UNCHANGED <<battle_vars, damage_vars, status_vars, stats_vars, roster_vars>>
SpecMove == InitMove /\ [][NextMove]_vars

TeamOf(indices) == [i \in DOMAIN indices |-> Clone(ROSTER[indices[i]])]

\* the formats started: the teams picked (pick_team; random.sample for the
\* enemies of battle_1v3) as indices of ROSTER, and the active Pokemon, the
\* first of each team or, in battle_vgc, the two chosen with
\* get_multi_selection in the order chosen, none when it is left with 'q'
Lineups ==
    {[mode |-> "pvp", t1 |-> <<1>>, t2 |-> <<2>>, a1 |-> <<1>>, a2 |-> <<1>>],
     [mode |-> "pvp", t1 |-> <<2>>, t2 |-> <<2>>, a1 |-> <<1>>, a2 |-> <<1>>],
     [mode |-> "pvp", t1 |-> <<3, 1, 4>>, t2 |-> <<4, 2, 1>>, a1 |-> <<1>>, a2 |-> <<1>>],
     [mode |-> "pvp", t1 |-> <<6, 1, 2>>, t2 |-> <<2, 4, 3>>, a1 |-> <<1>>, a2 |-> <<1>>],
     [mode |-> "1v3", t1 |-> <<4>>, t2 |-> <<2, 1, 3>>, a1 |-> <<1>>, a2 |-> <<1>>],
     [mode |-> "1v3", t1 |-> <<1>>, t2 |-> <<4, 2, 3>>, a1 |-> <<1>>, a2 |-> <<1>>],
     [mode |-> "vgc", t1 |-> <<4, 3, 1, 2>>, t2 |-> <<1, 2, 3, 4>>,
      a1 |-> <<4, 2>>, a2 |-> <<1, 4>>],
     [mode |-> "vgc", t1 |-> <<1, 2, 3, 4>>, t2 |-> <<1, 2, 3, 4>>,
      a1 |-> <<>>, a2 |-> <<4, 3>>],
     [mode |-> "vgc", t1 |-> <<1, 2, 3, 4>>, t2 |-> <<5, 3, 1, 2>>,
      a1 |-> <<>>, a2 |-> <<2, 1>>]}

Init ==
    /\ \E l \in Lineups :
          /\ mode = l.mode
          /\ player1_team = TeamOf(l.t1)
          /\ player2_team = TeamOf(l.t2)
          /\ p1_active = l.a1
          /\ p2_active = l.a2
    /\ pc = "top"
    /\ all_actions = <<>> /\ turn_count = 1
    /\ records = <<>> /\ winner_player = 0 - 1
    /\ pm_args = [drawn |-> FALSE] /\ last = NoLast
    /\ cd_args = [called |-> FALSE] /\ cd_ret = NoDamageRet
    /\ poke = [name |-> "none"] /\ law = [n |-> 0]
    /\ stats = load_stats
    /\ heap = NoHeap

Next ==
    \/ battle_pvp_top /\ UNCHANGED <<damage_vars, status_vars, stats_vars, roster_vars>>
    \/ battle_pvp_p1_action /\ UNCHANGED <<damage_vars, status_vars, stats_vars, roster_vars>>
    \/ battle_pvp_p2_check /\ UNCHANGED <<damage_vars, status_vars, stats_vars, roster_vars>>
    \/ battle_pvp_p2_action /\ UNCHANGED <<damage_vars, status_vars, stats_vars, roster_vars>>
    \/ battle_pvp_p1_check /\ UNCHANGED <<damage_vars, status_vars, stats_vars, roster_vars>>
    \/ battle_pvp_end_of_turn /\ UNCHANGED <<damage_vars, status_vars, stats_vars, roster_vars>>
    \/ battle_pvp_winner /\ UNCHANGED <<damage_vars, status_vars, roster_vars>>
    \/ battle_1v3_top /\ UNCHANGED <<damage_vars, status_vars, stats_vars, roster_vars>>
    \/ battle_1v3_player_action /\ UNCHANGED <<damage_vars, status_vars, stats_vars, roster_vars>>
    \/ battle_1v3_enemy_check /\ UNCHANGED <<damage_vars, status_vars, stats_vars, roster_vars>>
    \/ battle_1v3_enemy_action /\ UNCHANGED <<damage_vars, status_vars, stats_vars, roster_vars>>
    \/ battle_1v3_player_check /\ UNCHANGED <<damage_vars, status_vars, stats_vars, roster_vars>>
    \/ battle_1v3_end_of_turn /\ UNCHANGED <<damage_vars, status_vars, stats_vars, roster_vars>>
    \/ battle_1v3_winner /\ UNCHANGED <<damage_vars, status_vars, stats_vars, roster_vars>>
    \/ battle_vgc_top /\ UNCHANGED <<damage_vars, status_vars, stats_vars, roster_vars>>
    \/ battle_vgc_request /\ UNCHANGED <<damage_vars, status_vars, stats_vars, roster_vars>>
    \/ battle_vgc_resolve /\ UNCHANGED <<damage_vars, status_vars, stats_vars, roster_vars>>
    \/ battle_vgc_end_of_turn /\ UNCHANGED <<damage_vars, status_vars, stats_vars, roster_vars>>
    \/ battle_vgc_winner /\ UNCHANGED <<damage_vars, status_vars, roster_vars>>
Spec == Init /\ [][Next]_vars

InitStatus ==
    /\ poke \in {[Pokemon("P", 100, 20, 1, 1, 1, 10) EXCEPT !.hp = h] : h \in HarnessHps}
    /\ law = [n |-> 0, op |-> "init",
              amt |-> [k \in LawKinds |-> 0],
              turns |-> [k \in LawKinds |-> 0],
              cnt |-> [k \in LawKinds |-> 0],
              only |-> NoOnly]
    /\ cd_args = [called |-> FALSE] /\ cd_ret = NoDamageRet
    /\ mode = "none" /\ pc = "idle"
    /\ player1_team = <<>> /\ player2_team = <<>>
    /\ p1_active = <<>> /\ p2_active = <<>>
    /\ all_actions = <<>> /\ turn_count = 0
    /\ records = <<>> /\ winner_player = 0 - 1
    /\ pm_args = [drawn |-> FALSE] /\ last = NoLast
    /\ stats = load_stats
    /\ heap = NoHeap

NextStatus ==
    \/ ApplyDefLower /\ UNCHANGED <<battle_vars, move_vars, damage_vars, stats_vars, roster_vars>>
    \/ ApplyDefBoost /\ UNCHANGED <<battle_vars, move_vars, damage_vars, stats_vars, roster_vars>>
    \/ ApplySpeedBoost /\ UNCHANGED <<battle_vars, move_vars, damage_vars, stats_vars, roster_vars>>
    \/ ApplyAtkBoost /\ UNCHANGED <<battle_vars, move_vars, damage_vars, stats_vars, roster_vars>>
    \/ ApplyPoison /\ UNCHANGED <<battle_vars, move_vars, damage_vars, stats_vars, roster_vars>>
    \/ ApplyBurn /\ UNCHANGED <<battle_vars, move_vars, damage_vars, stats_vars, roster_vars>>
    \/ ApplyParalysis /\ UNCHANGED <<battle_vars, move_vars, damage_vars, stats_vars, roster_vars>>
    \/ EndOfTurnTick /\ UNCHANGED <<battle_vars, move_vars, damage_vars, stats_vars, roster_vars>>
SpecStatus == InitStatus /\ [][NextStatus]_vars

(***************************************************************************)
(* The outcome harness: "Determine winner" and the statistics update of    *)
(* the three formats, started where the battle loop leaves it: one team    *)
(* at least without a living Pokemon, the others at any hp.                *)
(***************************************************************************)
FinalHps == {0, 1, 2}

InitOutcome ==
    /\ \E l \in Lineups :
       \E h1 \in [DOMAIN l.t1 -> FinalHps], h2 \in [DOMAIN l.t2 -> FinalHps] :
          /\ ~((\E i \in DOMAIN h1 : h1[i] > 0) /\ (\E i \in DOMAIN h2 : h2[i] > 0))
          /\ mode = l.mode
          /\ player1_team = [i \in DOMAIN l.t1 |-> [Clone(ROSTER[l.t1[i]]) EXCEPT !.hp = h1[i]]]
          /\ player2_team = [i \in DOMAIN l.t2 |-> [Clone(ROSTER[l.t2[i]]) EXCEPT !.hp = h2[i]]]
          /\ p1_active = l.a1
          /\ p2_active = l.a2
    /\ pc = "winner"
    /\ all_actions = <<>> /\ turn_count = 1
    /\ records = <<>> /\ winner_player = 0 - 1
    /\ pm_args = [drawn |-> FALSE] /\ last = NoLast
    /\ cd_args = [called |-> FALSE] /\ cd_ret = NoDamageRet
    /\ poke = [name |-> "none"] /\ law = [n |-> 0]
    /\ stats = load_stats
    /\ heap = NoHeap

NextOutcome ==
    \/ battle_pvp_winner /\ UNCHANGED <<damage_vars, status_vars, roster_vars>>
    \/ battle_1v3_winner /\ UNCHANGED <<damage_vars, status_vars, stats_vars, roster_vars>>
    \/ battle_vgc_winner /\ UNCHANGED <<damage_vars, status_vars, roster_vars>>
SpecOutcome == InitOutcome /\ [][NextOutcome]_vars

(***************************************************************************)
(* The statistics harness: any sequence of update_stats calls on the       *)
(* default store, with names of the store and one name that is not in it, *)
(* the winner and the loser possibly the same name.                        *)
(***************************************************************************)
StatsNames == {ROSTER[1].name, ROSTER[2].name, "Newcomer"}

CallUpdateStats ==
    /\ \A n \in DOMAIN stats : stats[n].matches < MaxMatches
    /\ \E winner \in StatsNames, loser \in StatsNames :
           stats' = update_stats(stats, winner, loser)

InitStats ==
    /\ stats = load_stats
    /\ heap = NoHeap
    /\ poke = [name |-> "none"] /\ law = [n |-> 0]
    /\ cd_args = [called |-> FALSE] /\ cd_ret = NoDamageRet
    /\ mode = "none" /\ pc = "idle"
    /\ player1_team = <<>> /\ player2_team = <<>>
    /\ p1_active = <<>> /\ p2_active = <<>>
    /\ all_actions = <<>> /\ turn_count = 0
    /\ records = <<>> /\ winner_player = 0 - 1
    /\ pm_args = [drawn |-> FALSE] /\ last = NoLast

NextStats ==
    CallUpdateStats /\ UNCHANGED <<battle_vars, move_vars, damage_vars, status_vars, roster_vars>>
SpecStats == InitStats /\ [][NextStats]_vars

(***************************************************************************)
(* The roster harness.  Python hands Pokemon around by reference: ROSTER   *)
(* and the teams are lists of references to Pokemon objects, and the       *)
(* status of a Pokemon is a reference to a dict.  heap.objects holds the   *)
(* Pokemon objects by id, the field status of each being the id of its     *)
(* dict in heap.dicts; heap.team1 and heap.team2 are the teams picked, as  *)
(* lists of ids; heap.touched is the set of objects that the last          *)
(* operation was called on.  The objects of ROSTER are the first ones, in  *)
(* the order of the list.                                                  *)
(***************************************************************************)
\* the object at id as a caller sees it, its status looked up
Deref(h, id) == [h.objects[id] EXCEPT !.status = h.dicts[@]]

\* the fields of the object at id and the content of its dict overwritten
Assign(h, id, p) ==
    LET ref == h.objects[id].status
    IN  [h EXCEPT !.objects[id] = [p EXCEPT !.status = ref],
                  !.dicts[ref] = p.status]

\* Pokemon(...): a new object whose status is a new empty dict
\* (field(default_factory=dict)); the value is the heap with the object last
Construct(h, p) ==
    [h EXCEPT !.objects = Append(@, [p EXCEPT !.status = Len(h.dicts) + 1]),
              !.dicts = Append(@, p.status)]

\* the module-level Pokemon of ROSTER (src lines 262-846)
RECURSIVE LoadRoster(_, _)
LoadRoster(h, n) ==
    IF n = 0 THEN h ELSE Construct(LoadRoster(h, n - 1), ROSTER[n])

\* team.append(original): the team holding the objects of the roster
pick_team_without_clone(h, selected_indices) ==
    [h |-> h, team |-> selected_indices]

\* pick_team from "team = []" on (src lines 1934-1949): a clone of
\* roster[idx] constructed and appended for each idx selected
RECURSIVE pick_team(_, _)
pick_team(h, selected_indices) ==
    IF selected_indices = <<>> THEN [h |-> h, team |-> <<>>]
    ELSE LET n == Len(selected_indices)
             r == pick_team(h, SubSeq(selected_indices, 1, n - 1))
             original == Deref(r.h, selected_indices[n])
             h2 == Construct(r.h, Clone(original))
         IN  [h |-> h2, team |-> Append(r.team, Len(h2.objects))]

\* what get_multi_selection returns in the harness
Selections == {<<1>>, <<2>>, <<2, 1>>}

HeapTeam(h, player) == IF player = 1 THEN h.team1 ELSE h.team2

\* team1 = pick_team(...), then team2 = pick_team(...) (src lines 2769, 2803)
PickTeam ==
    /\ heap.picked < 2
    /\ \E selected_indices \in Selections :
          LET r == pick_team(heap, selected_indices)
          IN  heap' = [r.h EXCEPT !.team1 = IF heap.picked = 0 THEN r.team ELSE @,
                                  !.team2 = IF heap.picked = 1 THEN r.team ELSE @,
                                  !.picked = @ + 1,
                                  !.touched = {}]

\* perform_move(attacker, defender, move) between a Pokemon of one team and
\* a Pokemon of the other
HeapPerformMove ==
    /\ heap.picked = 2 /\ heap.ops < MaxOps
    /\ \E player \in {1, 2} :
       \E i \in DOMAIN HeapTeam(heap, player), j \in DOMAIN HeapTeam(heap, 3 - player) :
          LET a == HeapTeam(heap, player)[i]
              d == HeapTeam(heap, 3 - player)[j]
              attacker == Deref(heap, a)
              defender == Deref(heap, d)
          IN  \E k \in DOMAIN MovesOf(attacker.name) :
              \E roll \in Rolls(attacker, MovesOf(attacker.name)[k]) :
                 LET r == perform_move(attacker, defender, MovesOf(attacker.name)[k], roll)
                 IN  heap' = [Assign(Assign(heap, a, r.attacker), d, r.defender)
                                 EXCEPT !.ops = @ + 1, !.touched = {a, d}]

\* apply_end_of_turn and the regeneration of the turn on a Pokemon of a team
HeapEndOfTurn ==
    /\ heap.picked = 2 /\ heap.ops < MaxOps
    /\ \E player \in {1, 2} : \E i \in DOMAIN HeapTeam(heap, player) :
          LET id == HeapTeam(heap, player)[i]
          IN  heap' = [Assign(heap, id, Regen(apply_end_of_turn(Deref(heap, id)), TurnRegen))
                          EXCEPT !.ops = @ + 1, !.touched = {id}]

\* the regeneration of a pass or of a switch on a Pokemon of a team
HeapRegen ==
    /\ heap.picked = 2 /\ heap.ops < MaxOps
    /\ \E player \in {1, 2} : \E i \in DOMAIN HeapTeam(heap, player) :
       \E amount \in {PassRegen, SwitchRegen} :
          LET id == HeapTeam(heap, player)[i]
          IN  heap' = [Assign(heap, id, Regen(Deref(heap, id), amount))
                          EXCEPT !.ops = @ + 1, !.touched = {id}]

InitRoster ==
    /\ heap = LoadRoster([objects |-> <<>>, dicts |-> <<>>, team1 |-> <<>>,
                          team2 |-> <<>>, picked |-> 0, ops |-> 0, touched |-> {}],
                         Len(ROSTER))
    /\ stats = load_stats
    /\ poke = [name |-> "none"] /\ law = [n |-> 0]
    /\ cd_args = [called |-> FALSE] /\ cd_ret = NoDamageRet
    /\ mode = "none" /\ pc = "idle"
    /\ player1_team = <<>> /\ player2_team = <<>>
    /\ p1_active = <<>> /\ p2_active = <<>>
    /\ all_actions = <<>> /\ turn_count = 0
    /\ records = <<>> /\ winner_player = 0 - 1
    /\ pm_args = [drawn |-> FALSE] /\ last = NoLast

NextRoster ==
    \/ PickTeam /\ UNCHANGED <<battle_vars, move_vars, damage_vars, status_vars, stats_vars>>
    \/ HeapPerformMove /\ UNCHANGED <<battle_vars, move_vars, damage_vars, status_vars, stats_vars>>
    \/ HeapEndOfTurn /\ UNCHANGED <<battle_vars, move_vars, damage_vars, status_vars, stats_vars>>
    \/ HeapRegen /\ UNCHANGED <<battle_vars, move_vars, damage_vars, status_vars, stats_vars>>
SpecRoster == InitRoster /\ [][NextRoster]_vars

(***************************************************************************)
(* battle_vgc from the start of its second turn, for the speed statuses.   *)
(* Both teams lead with a Wing.  In the first turn each Wing used Feather  *)
(* Stake on a Pokemon of the other side or passed and the two other active *)
(* Pokemon passed, so the runs differ in the speed statuses only: every    *)
(* Pokemon has its hp and, after the regeneration, its energy_max.         *)
(***************************************************************************)
\* speed_boost(def_p, 2, 2) of Feather Stake, then the end of the first turn
FeatherStaked(pokemon) == Regen(apply_end_of_turn(speed_boost(pokemon, 2, 2)), TurnRegen)

InitSpeed ==
    /\ mode = "vgc" /\ pc = "top"
    /\ \E staked1 \in BOOLEAN : \E staked2 \in BOOLEAN :
          /\ player1_team = [TeamOf(<<7, 3, 1, 2>>) EXCEPT
                                ![2] = IF staked1 THEN FeatherStaked(@) ELSE @]
          /\ player2_team = [TeamOf(<<2, 7, 1, 3>>) EXCEPT
                                ![2] = IF staked2 THEN FeatherStaked(@) ELSE @]
    /\ p1_active = <<1, 2>> /\ p2_active = <<1, 2>>
    /\ all_actions = <<>> /\ turn_count = 2
    /\ records = <<>> /\ winner_player = 0 - 1
    /\ pm_args = [drawn |-> FALSE] /\ last = NoLast
    /\ cd_args = [called |-> FALSE] /\ cd_ret = NoDamageRet
    /\ poke = [name |-> "none"] /\ law = [n |-> 0]
    /\ stats = load_stats
    /\ heap = NoHeap

NextSpeed ==
    \/ battle_vgc_top /\ UNCHANGED <<damage_vars, status_vars, stats_vars, roster_vars>>
    \/ battle_vgc_request /\ UNCHANGED <<damage_vars, status_vars, stats_vars, roster_vars>>
    \/ battle_vgc_resolve /\ UNCHANGED <<damage_vars, status_vars, stats_vars, roster_vars>>
    \/ battle_vgc_end_of_turn /\ UNCHANGED <<damage_vars, status_vars, stats_vars, roster_vars>>
SpecSpeed == InitSpeed /\ [][NextSpeed]_vars

(***************************************************************************)
(* Properties of the status functions and of apply_end_of_turn, checked    *)
(* under SpecStatus.                                                       *)
(***************************************************************************)
TurnsOf(s, k) == IF k \in DurationKeys THEN s[k] ELSE s[k].turns

\* C3: a stat modifier (def_down, def_up, spd_up, spd_down, atk_up) holds the
\* sum of the amounts and the sum of the turns of its applications, less one
\* turn for every end-of-turn tick on the living Pokemon since, and both of
\* its entries are absent once the summed turns are used up.
C3_StatModifiersStack ==
    \A k \in DurationKeys :
        IF law.turns[k] > 0
        THEN /\ k \in DOMAIN poke.status
             /\ AmtKey(k) \in DOMAIN poke.status
             /\ poke.status[k] = law.turns[k]
             /\ poke.status[AmtKey(k)] = law.amt[k]
        ELSE /\ k \notin DOMAIN poke.status
             /\ AmtKey(k) \notin DOMAIN poke.status

\* C3 witness: def_lower was applied twice (the longest duration and the
\* largest amount both times, no tick in between) and the sums are stored.
C3_Witness ==
    /\ alive(poke)
    /\ law.n = 2
    /\ law.cnt["def_down"] = 2
    /\ Get(poke.status, "def_down", 0) = 2 * MaxDuration
    /\ Get(poke.status, "def_down_amt", 0) = 2 * MaxAmount

\* C4: poison, burn and paralysis stack like the stat modifiers: the entry
\* holds the summed dmg_per_turn and the summed turns of its applications.
C4_DotAndParalysisStack ==
    \A k \in DotKeys \cup {"paralysis"} :
        IF law.turns[k] > 0
        THEN /\ k \in DOMAIN poke.status
             /\ poke.status[k].turns = law.turns[k]
             /\ k \in DotKeys => poke.status[k].dmg = law.amt[k]
        ELSE k \notin DOMAIN poke.status

StatusWellFormed(s) ==
    /\ \A k \in LawKinds \cap DOMAIN s : TurnsOf(s, k) > 0
    /\ \A k \in DurationKeys : (k \in DOMAIN s) <=> (AmtKey(k) \in DOMAIN s)

TickTakesOneTurn(s, t) ==
    \A k \in LawKinds :
        IF k \in DOMAIN s
        THEN IF TurnsOf(s, k) > 1
             THEN /\ k \in DOMAIN t
                  /\ TurnsOf(t, k) = TurnsOf(s, k) - 1
                  /\ k \in DurationKeys => t[AmtKey(k)] = s[AmtKey(k)]
                  /\ k \in DotKeys => t[k].dmg = s[k].dmg
             ELSE /\ k \notin DOMAIN t
                  /\ k \in DurationKeys => AmtKey(k) \notin DOMAIN t
        ELSE k \notin DOMAIN t

\* C5: a kind is in the status only with turns > 0, a stat modifier's amount
\* entry is there exactly when its turns entry is; a tick on a living Pokemon
\* takes exactly one turn off every kind present and removes a kind (amount
\* and turns together) exactly when its turns reach 0; no other step removes
\* a kind.
C5_TickDecrementsAndRemovesAtZero ==
    /\ [](law.op # "none" => StatusWellFormed(poke.status))
    /\ [][/\ (law'.op = "tick" /\ alive(poke))
                => TickTakesOneTurn(poke.status, poke'.status)
          /\ law'.op = "apply"
                => DOMAIN poke.status \subseteq DOMAIN poke'.status]_vars

\* C5 witness: a tick has just removed a kind whose last turn it was while
\* another kind stays with fewer turns.
C5_Witness ==
    /\ law.op = "tick"
    /\ law.cnt["def_up"] = 0 /\ law.amt["def_up"] = 0
    /\ "def_up" \notin DOMAIN poke.status
    /\ "paralysis" \in DOMAIN poke.status
    /\ law.n = 2 /\ law.cnt["paralysis"] = 1
    /\ poke.status["paralysis"].turns = MaxDuration - 1

ActiveAmount(p, k) == IF Get(p.status, k, 0) > 0 THEN Get(p.status, AmtKey(k), 0) ELSE 0

\* power * atk_eff * (1 + 0.005 * (attacker.lvl - defender.lvl)) as a
\* fraction over 200, and its divisor max(1, def_eff) * 200
ClaimNumerator ==
    cd_args.move.power * (cd_args.attacker.atk + ActiveAmount(cd_args.attacker, "atk_up"))
        * (200 + cd_args.attacker.lvl - cd_args.defender.lvl)
ClaimDivisor == cd_ret.def_used * 200

\* d = floor(max(1, n / m)), for m > 0
IsFloorAtLeastOne(d, n, m) ==
    IF n < m THEN d = 1 ELSE d * m <= n /\ n < (d + 1) * m

\* the damage before a critical hit, at the variance drawn
ClaimBaseDamage ==
    LET n == ClaimNumerator * cd_args.variance
        m == ClaimDivisor * 20
    IN  IF n < m THEN 1 ELSE n \div m

Scenario66 ==
    /\ cd_args.attacker.atk = 1824 /\ cd_args.attacker.status = EmptyStatus
    /\ cd_args.defender.dfns = 1102 /\ cd_args.defender.status = EmptyStatus
    /\ cd_args.attacker.lvl = cd_args.defender.lvl
    /\ cd_args.move.power = 40
    /\ cd_args.variance = 20 /\ ~cd_args.crit

\* C7: for a move with power > 0, compute_damage returns a damage >= 1 at
\* every variance, level difference and modifier state, critical hit or not.
C7_MinimumDamage ==
    (cd_ret.called /\ cd_args.move.power > 0) => cd_ret.dmg >= 1

\* C7 witness: a damage clamped to 1 (the raw damage is below 1) at the
\* lowest variance, with a critical hit.
C7_Witness ==
    /\ cd_ret.called /\ cd_args.move.power > 0
    /\ ClaimNumerator * cd_args.variance < ClaimDivisor * 20
    /\ cd_args.variance = 17 /\ cd_args.crit
    /\ cd_ret.dmg = 1

\* C9 (as amended): for a move with power > 0, at variance 1.0 and without a
\* critical hit compute_damage returns
\* floor(max(1, power * atk_eff / max(1, def_eff) * (1 + 0.005 * level
\* difference))), which is 66 for attack 1824, defense 1102, equal levels and
\* power 40, and a critical hit returns floor(1.8 * damage); for a move with
\* power <= 0 it returns 0.
C9_FormulaAtUnitVariance ==
    cd_ret.called =>
        IF cd_args.move.power > 0
        THEN /\ (cd_args.variance = 20 /\ ~cd_args.crit)
                    => IsFloorAtLeastOne(cd_ret.dmg, ClaimNumerator, ClaimDivisor)
             /\ Scenario66 => cd_ret.dmg = 66
             /\ cd_args.crit
                    => /\ 5 * cd_ret.dmg <= 9 * ClaimBaseDamage
                       /\ 9 * ClaimBaseDamage < 5 * (cd_ret.dmg + 1)
        ELSE cd_ret.dmg = 0

\* C9 witness: the scenario of the specification, with its result 66.
C9_Witness == cd_ret.called /\ Scenario66 /\ cd_ret.dmg = 66

\* C9 as stated: at variance 1.0 and without a critical hit compute_damage
\* returns floor(max(1, power * atk_eff / max(1, def_eff) * (1 + 0.005 *
\* level difference))), for every move.
C9_Original ==
    (cd_ret.called /\ cd_args.variance = 20 /\ ~cd_args.crit)
        => IsFloorAtLeastOne(cd_ret.dmg, ClaimNumerator, ClaimDivisor)

\* C10: the effective defense the damage formula divides by is
\* max(1, defense + defense_up amount - defense_down amount), for every
\* combination of modifiers in force.
C10_EffectiveDefense ==
    (cd_ret.called /\ cd_args.move.power > 0) =>
        cd_ret.def_used = Max(1, cd_args.defender.dfns
                                  + ActiveAmount(cd_args.defender, "def_up")
                                  - ActiveAmount(cd_args.defender, "def_down"))

(***************************************************************************)
(* Properties of the battle loops, checked under Spec.                     *)
(***************************************************************************)
InBounds(p) ==
    0 <= p.hp /\ p.hp <= p.max_hp /\ 0 <= p.energy /\ p.energy <= p.energy_max

\* C1: in battle_pvp, battle_1v3 and battle_vgc, after every step (a call of
\* perform_move, its effect hook, apply_end_of_turn, the regeneration of a
\* pass, a switch and the end of a turn), every Pokemon of both teams has
\* 0 <= hp <= max_hp and 0 <= energy <= energy_max.
C1_HpAndEnergyBounds ==
    /\ \A i \in DOMAIN player1_team : InBounds(player1_team[i])
    /\ \A i \in DOMAIN player2_team : InBounds(player2_team[i])
    /\ last.called => 0 <= last.hook_hp /\ last.hook_hp <= last.defender.max_hp

\* C1 witness: in battle_vgc a move was paid for and its hook and formula
\* damage together exceed the hp of the living defender, which is left at
\* hp 0.
C1_Witness ==
    /\ mode = "vgc" /\ last.called /\ last.result = "used"
    /\ last.defender.hp > 0
    /\ (last.defender.hp - last.hook_hp) + last.formula > last.defender.hp
    /\ last.defender_after.hp = 0
    /\ last.attacker_after.energy < last.attacker.energy

(***************************************************************************)
(* Properties of perform_move, checked under SpecMove.                     *)
(***************************************************************************)
\* C2 (as amended): whenever perform_move is attempted with
\* move.energy_cost > attacker.energy, the move is not applied: the energy,
\* the hp and the status of attacker and defender are unchanged, no effect
\* hook and no damage computation runs, and the outcome is reported as failed
\* for insufficient energy, unless the attacker is paralyzed and the paralysis
\* check, which comes first, stops it: then it is reported as fully paralyzed.
C2_EnergyGating ==
    (last.called /\ last.move.energy_cost > last.attacker.energy) =>
        /\ last.attacker_after = last.attacker
        /\ last.defender_after = last.defender
        /\ ~last.hooked /\ ~last.computed
        /\ last.result \in {"lacked_energy", "fully_paralyzed"}
        /\ last.result = "fully_paralyzed" => IsParalyzed(last.attacker)
        /\ ~IsParalyzed(last.attacker) => last.result = "lacked_energy"

\* C2 witness: a move costing 80 attempted with energy 50 is reported as
\* lacking energy and leaves the energy at 50.
C2_Witness ==
    /\ last.called /\ last.move.energy_cost = 80 /\ last.attacker.energy = 50
    /\ last.result = "lacked_energy" /\ last.attacker_after.energy = 50
    /\ last.move.effect.fn # "none"

\* C2 as stated: whenever perform_move is attempted with
\* move.energy_cost > attacker.energy, nothing changes, no hook runs and the
\* outcome is reported as failed for insufficient energy.
C2_Original ==
    (last.called /\ last.move.energy_cost > last.attacker.energy) =>
        /\ last.attacker_after = last.attacker
        /\ last.defender_after = last.defender
        /\ ~last.hooked
        /\ last.result = "lacked_energy"

\* C8: a move with power = 0 never deals formula damage, whatever its
\* category: compute_damage, where it runs, returns 0, and the hp perform_move
\* leaves the defender with is the hp the effect hook left it with (the hp it
\* had before if the move has no hook or is not applied).
C8_ZeroPowerNoFormulaDamage ==
    (last.called /\ last.move.power = 0) =>
        /\ last.formula = 0
        /\ last.defender_after.hp = last.hook_hp
        /\ ~last.hooked => last.defender_after.hp = last.defender.hp

\* C8 witness: a power 0 move of a damaging category was applied,
\* compute_damage ran, and the defender lost hp through the hook alone.
C8_Witness ==
    /\ last.called /\ last.move.power = 0 /\ last.move.category # "status"
    /\ last.result = "used" /\ last.computed /\ last.hooked
    /\ last.defender_after.hp < last.defender.hp
    /\ last.defender_after.hp = last.hook_hp

\* C11: a damaging move whose hook is deal_percent_max_hp(percent) takes
\* exactly floor(defender.max_hp * percent / 100) off the defender's hp
\* (floored at 0) and nothing else: the formula damage is not added.
C11_PercentReplacesFormulaDamage ==
    (/\ last.called /\ last.result = "used"
     /\ last.move.category # "status" /\ last.move.power > 0
     /\ last.move.effect.fn = "deal_percent_max_hp") =>
        last.defender_after.hp =
            Max(0, last.defender.hp
                   - (last.defender.max_hp * last.move.effect.a) \div 100)

\* C12: a damaging move whose hook is bonus_damage_if_hp_above(threshold)
\* takes twice the formula damage off the defender's hp when
\* defender.hp / defender.max_hp * 100 >= threshold, and the formula damage
\* otherwise.
C12_BonusDoublesFormulaDamage ==
    (/\ last.called /\ last.result = "used"
     /\ last.move.category # "status" /\ last.move.power > 0
     /\ last.move.effect.fn = "bonus_damage_if_hp_above") =>
        last.defender_after.hp =
            Max(0, last.defender.hp
                   - (IF last.defender.hp * 100 >= last.move.effect.a * last.defender.max_hp
                      THEN 2 * last.formula ELSE last.formula))

HasParalysis(p) ==
    "paralysis" \in DOMAIN p.status /\ p.status["paralysis"].turns > 0

\* C13: when the attacker has paralysis with turns > 0 and the 25% check
\* succeeds, perform_move resolves to no action, whatever the energy of the
\* attacker: no energy is spent, no hook and no damage computation runs and
\* no hp or status of either Pokemon changes; an attacker without paralysis
\* is never reported as fully paralyzed.
C13_FullParalysis ==
    last.called =>
        /\ (HasParalysis(last.attacker) /\ last.roll.para) =>
              /\ last.result = "fully_paralyzed"
              /\ last.attacker_after = last.attacker
              /\ last.defender_after = last.defender
              /\ ~last.hooked /\ ~last.computed
        /\ last.result = "fully_paralyzed" =>
              HasParalysis(last.attacker) /\ last.roll.para
        /\ ~HasParalysis(last.attacker) => ~last.roll.para

\* C13 witness: a paralyzed attacker whose energy does not cover the move
\* lost the check and is reported as fully paralyzed, its energy untouched.
C13_Witness ==
    /\ last.called /\ HasParalysis(last.attacker) /\ last.roll.para
    /\ last.move.energy_cost > last.attacker.energy
    /\ last.result = "fully_paralyzed"
    /\ last.attacker_after.energy = last.attacker.energy

\* C14: whenever perform_move is neither stopped by full paralysis nor
\* rejected for insufficient energy, the attacker's energy decreases by
\* exactly move.energy_cost, for every category, with or without a hook and
\* whether or not damage is dealt; otherwise it does not change.
C14_EnergyDeduction ==
    last.called =>
        /\ last.result = "used" =>
              last.attacker_after.energy = last.attacker.energy - last.move.energy_cost
        /\ last.result # "used" =>
              last.attacker_after.energy = last.attacker.energy
        /\ last.result = "used" <=>
              ~(HasParalysis(last.attacker) /\ last.roll.para)
              /\ last.move.energy_cost <= last.attacker.energy

\* C14 witness: a status move without a hook, which changes nothing else,
\* was used by a paralyzed attacker that passed the check and cost its 38.
C14_Witness ==
    /\ last.called /\ last.result = "used"
    /\ last.move.category = "status" /\ last.move.effect.fn = "none"
    /\ HasParalysis(last.attacker) /\ ~last.roll.para
    /\ last.move.energy_cost = 38
    /\ last.attacker_after.energy = last.attacker.energy - 38
    /\ last.defender_after = last.defender

\* C15: starting from the default all-zero store, after any sequence of
\* update_stats calls, the winner and the loser the same name or names not
\* yet in the store included, every record has wins + losses = matches.
C15_WinsPlusLossesIsMatches ==
    \A n \in DOMAIN stats : stats[n].wins + stats[n].losses = stats[n].matches

\* C15 witness: a name that was not in the store got its record from one
\* call in which it was both the winner and the loser: one win, one loss and
\* two matches, while no other record has a match.
C15_Witness ==
    /\ "Newcomer" \in DOMAIN stats
    /\ stats["Newcomer"].wins = 1 /\ stats["Newcomer"].losses = 1
    /\ stats["Newcomer"].matches = 2
    /\ \A n \in DOMAIN stats \ {"Newcomer"} : stats[n].matches = 0

\* C16: after any sequence of update_stats calls every record of the store,
\* not only the two just updated, has win_percentage equal to
\* round(wins / matches * 100, 2) when matches > 0 and to 0.0 when
\* matches = 0 (in hundredths: the nearest hundredth to wins * 100 / matches).
C16_WinPercentage ==
    \A n \in DOMAIN stats :
        IF stats[n].matches = 0 THEN stats[n].win_percentage = 0
        ELSE /\ 2 * Abs(stats[n].win_percentage * stats[n].matches
                          - stats[n].wins * 10000) <= stats[n].matches
             /\ stats[n].win_percentage \in 0..10000

\* C16 witness: a record at two wins in three matches shows 66.67, next to a
\* record without a match that shows 0.0.
C16_Witness ==
    /\ stats[ROSTER[1].name].wins = 2 /\ stats[ROSTER[1].name].matches = 3
    /\ stats[ROSTER[1].name].win_percentage = 6667
    /\ \E n \in DOMAIN stats : stats[n].matches = 0 /\ stats[n].win_percentage = 0

\* the place of an action in the request order of its turn: the slots of
\* player 1, then those of player 2
RequestRank(a) ==
    LET active == IF a.player = 1 THEN p1_active ELSE p2_active
    IN  2 * (a.player - 1) + (CHOOSE s \in DOMAIN active : active[s] = a.idx)

Resolving == mode = "vgc" /\ pc = "resolve"

\* C17: the actions of a battle_vgc turn are resolved in descending order of
\* the speed (spd) of the Pokemon that act, whatever the order in which they
\* were requested; actions of equal speed are resolved in the order requested.
C17_SpeedOrder ==
    Resolving =>
        \A i \in DOMAIN all_actions : \A j \in DOMAIN all_actions :
            i < j =>
                \/ ActionSpd(all_actions[i]) > ActionSpd(all_actions[j])
                \/ /\ ActionSpd(all_actions[i]) = ActionSpd(all_actions[j])
                   /\ RequestRank(all_actions[i]) < RequestRank(all_actions[j])

\* C17 witness: four actions requested by Pokemon of speeds 3, 2, 4, 1 (as
\* 1200, 900, 1500, 300) wait to be resolved in the order 4, 3, 2, 1.
C17_Witness ==
    /\ Resolving /\ Len(all_actions) = 4
    /\ [i \in 1 .. 4 |-> ActionSpd(all_actions[i])] = <<4, 3, 2, 1>>
    /\ [i \in 1 .. 4 |-> RequestRank(all_actions[i])] = <<3, 1, 2, 4>>

\* C17 as stated: the order of resolution is strictly descending in speed.
C17_Original ==
    Resolving =>
        \A i \in DOMAIN all_actions : \A j \in DOMAIN all_actions :
            i < j => ActionSpd(all_actions[i]) > ActionSpd(all_actions[j])

Ended == pc = "done"
NoneAlive(team) == ~AnyAlive(team)

\* C18: in every format, when the battle has ended and exactly one team has
\* no living Pokemon the other team is declared the winner, and when both
\* teams have none the battle is declared a draw, never a win.
C18_Outcome ==
    Ended =>
        /\ (AnyAlive(player1_team) /\ NoneAlive(player2_team)) => winner_player = 1
        /\ (NoneAlive(player1_team) /\ AnyAlive(player2_team)) => winner_player = 2
        /\ (NoneAlive(player1_team) /\ NoneAlive(player2_team)) => winner_player = 0

Decisive ==
    \/ AnyAlive(player1_team) /\ NoneAlive(player2_team)
    \/ NoneAlive(player1_team) /\ AnyAlive(player2_team)

\* C19: in every format (battle_pvp, battle_1v3, battle_vgc) a battle that
\* ended with exactly one team without a living Pokemon has handed exactly
\* one (winner, loser) pair to update_stats, and a battle that ended with
\* no living Pokemon on either side has handed none.
C19_OneRecordPerDecisiveOutcome ==
    Ended =>
        /\ Decisive => Len(records) = 1
        /\ (NoneAlive(player1_team) /\ NoneAlive(player2_team)) => Len(records) = 0

WinningTeam == IF winner_player = 1 THEN player1_team ELSE player2_team
LosingTeam == IF winner_player = 1 THEN player2_team ELSE player1_team

\* C20: in every pair handed to update_stats the winner is the first living
\* Pokemon, in team order, of the team declared the winner, and the loser is
\* a Pokemon of the other team whose hp is 0.
C20_RecordedWinnerAndLoser ==
    Ended =>
        \A k \in DOMAIN records :
            /\ winner_player \in {1, 2}
            /\ AnyAlive(WinningTeam)
            /\ records[k].winner = WinningTeam[FirstOf(AliveIndices(WinningTeam))].name
            /\ \E i \in DOMAIN LosingTeam :
                  LosingTeam[i].hp = 0 /\ LosingTeam[i].name = records[k].loser

\* C20 witness: the first Pokemon of the winning team has fainted, a later
\* one is recorded as the winner, and the losing team is recorded with a
\* fainted Pokemon.
C20_Witness ==
    /\ Ended /\ Len(records) = 1 /\ winner_player \in {1, 2}
    /\ WinningTeam[1].hp = 0
    /\ records[1].winner # WinningTeam[1].name
    /\ \E i \in DOMAIN WinningTeam :
          WinningTeam[i].hp > 0 /\ WinningTeam[i].name = records[1].winner
    /\ \E i \in DOMAIN LosingTeam :
          LosingTeam[i].hp = 0 /\ LosingTeam[i].name = records[1].loser

DotDamage(p) ==
    Get(p.status, "poison", [dmg |-> 0]).dmg + Get(p.status, "burn", [dmg |-> 0]).dmg

\* what the end of a turn does to one active Pokemon: the effects of its
\* status on a living one, then 3 energy up to energy_max
EndOfTurnRan(before, after) ==
    /\ after.energy = Min(before.energy_max, before.energy + 3)
    /\ IF alive(before)
       THEN /\ after.hp = Max(0, before.hp - DotDamage(before))
            /\ TickTakesOneTurn(before.status, after.status)
       ELSE after.hp = before.hp /\ after.status = before.status

OthersUnchanged(before, after, idx) ==
    \A i \in DOMAIN before : i # idx => after[i] = before[i]

\* C21: in battle_pvp player 2 is asked for its action only after player 1's
\* action has been resolved and player 2's active Pokemon checked; the end
\* of the turn comes only after both have acted; it runs the end-of-turn
\* effects on both active Pokemon and gives each exactly 3 energy, capped at
\* energy_max, nothing else changing, and only then is the first action of
\* the next turn requested.
C21_TurnStructure ==
    [][mode = "pvp" =>
          /\ pc' = "p2_check" => pc = "p1_action"
          /\ pc' = "p2_action" =>
                pc = "p2_check" /\ UNCHANGED <<player1_team, player2_team>>
          /\ pc' = "p1_check" => pc = "p2_action"
          /\ pc' = "end_of_turn" =>
                pc = "p1_check" /\ UNCHANGED <<player1_team, player2_team>>
          /\ pc = "end_of_turn" =>
                /\ pc' = "top" /\ turn_count' = turn_count + 1
                /\ UNCHANGED <<p1_active, p2_active>>
                /\ EndOfTurnRan(player1_team[p1_active[1]], player1_team'[p1_active[1]])
                /\ EndOfTurnRan(player2_team[p2_active[1]], player2_team'[p2_active[1]])
                /\ OthersUnchanged(player1_team, player1_team', p1_active[1])
                /\ OthersUnchanged(player2_team, player2_team', p2_active[1])
          /\ pc' = "p1_action" =>
                pc = "top" /\ UNCHANGED <<player1_team, player2_team>>]_vars

\* C21 witness: the second turn of a battle_pvp starts after an end of turn
\* that took a turn off player 2's lowered defense and gave 3 energy to both
\* (player 1 from 4 to the cap of 6, player 2 from 2 to 5).
C21_Witness ==
    /\ mode = "pvp" /\ pc = "top" /\ turn_count = 2
    /\ Get(player2_team[p2_active[1]].status, "def_down", 0) = 1
    /\ player1_team[p1_active[1]].energy = 6
    /\ player2_team[p2_active[1]].energy = 5

SingleActive == mode \in {"pvp", "1v3"}

\* a step that checks the active Pokemon of a prompted side: the side, or 0
CheckedSide ==
    IF SingleActive /\ pc = "top" /\ AnyAlive(player1_team) /\ AnyAlive(player2_team)
    THEN 1
    ELSE IF SingleActive /\ pc = "p1_check" THEN 1
    ELSE IF mode = "pvp" /\ pc = "p2_check" THEN 2
    ELSE 0

\* C22: in battle_pvp and battle_1v3, when the active Pokemon of a prompted
\* side is found fainted and its team has a living Pokemon, the side's active
\* index moves to a living Pokemon before the side is asked for its next
\* action, so that a side is only asked with a living active Pokemon; when
\* its team has no living Pokemon the loop is left for the outcome and
\* neither a switch nor an action is requested.
C22_ForcedSwitch ==
    /\ []((SingleActive /\ pc = "p1_action") => alive(player1_team[p1_active[1]]))
    /\ []((mode = "pvp" /\ pc = "p2_action") => alive(player2_team[p2_active[1]]))
    /\ [][/\ (CheckedSide = 1 /\ ~alive(player1_team[p1_active[1]])) =>
                IF AnyAlive(player1_team)
                THEN /\ p1_active'[1] \in AliveIndices(player1_team)
                     /\ pc' \in {"p1_action", "end_of_turn"}
                     /\ UNCHANGED <<player1_team, player2_team, p2_active>>
                ELSE pc' = "winner" /\ UNCHANGED <<p1_active, p2_active>>
          /\ (CheckedSide = 2 /\ ~alive(player2_team[p2_active[1]])) =>
                IF AnyAlive(player2_team)
                THEN /\ p2_active'[1] \in AliveIndices(player2_team)
                     /\ pc' = "p2_action"
                     /\ UNCHANGED <<player1_team, player2_team, p1_active>>
                ELSE pc' = "winner" /\ UNCHANGED <<p1_active, p2_active>>]_vars

\* C22 witness: in a battle_pvp player 2 is about to be asked for its action
\* with a living Pokemon that replaced its fainted first one.
C22_Witness ==
    /\ mode = "pvp" /\ pc = "p2_action"
    /\ ~alive(player2_team[1])
    /\ p2_active[1] # 1
    /\ alive(player2_team[p2_active[1]])

Requesting == mode = "vgc" /\ pc \in Elems(RequestOrder)

Untouched(p) == p.hp = p.max_hp /\ p.energy = p.energy_max /\ p.status = EmptyStatus

\* C24: in battle_1v3 the enemies are fought one at a time in team order:
\* the enemies before the active one have fainted and those after it have
\* not been touched; the active enemy changes only in the check that follows
\* the player's action, when it has fainted and another enemy is alive, to
\* the next enemy of the team, which is alive, without a choice by anyone and
\* before the enemy side acts.
C24_GauntletAutoAdvance ==
    /\ [](mode = "1v3" =>
             \A i \in DOMAIN player2_team :
                 /\ i < p2_active[1] => player2_team[i].hp = 0
                 /\ i > p2_active[1] => Untouched(player2_team[i]))
    /\ [][mode = "1v3" =>
             /\ p2_active' # p2_active =>
                   /\ pc = "enemy_check" /\ pc' = "enemy_action"
                   /\ player2_team[p2_active[1]].hp = 0
                   /\ p2_active'[1] = p2_active[1] + 1
                   /\ player2_team[p2_active'[1]].hp > 0
                   /\ UNCHANGED <<player1_team, player2_team, p1_active>>
             /\ (pc = "enemy_check" /\ player2_team[p2_active[1]].hp = 0
                 /\ \E i \in DOMAIN player2_team : player2_team[i].hp > 0) =>
                   p2_active' # p2_active]_vars

\* C24 witness: the first enemy has fainted and the second one, alive, is
\* about to act.
C24_Witness ==
    /\ mode = "1v3" /\ pc = "enemy_action"
    /\ p2_active = <<2>>
    /\ player2_team[1].hp = 0 /\ player2_team[2].hp > 0

\* C25: on its turn in battle_1v3 the enemy uses a move whose energy_cost is
\* at most its energy whenever it has one, so that perform_move never rejects
\* it for insufficient energy; when it has none it passes: it regains 5
\* energy, capped at energy_max, and no hp and no status of any Pokemon
\* changes.
C25_EnemyPolicy ==
    [][(mode = "1v3" /\ pc = "enemy_action") =>
          LET enemy == player2_team[p2_active[1]]
              moves == MovesOf(enemy.name)
          IN  IF \E m \in DOMAIN moves : moves[m].energy_cost <= enemy.energy
              THEN /\ last'.called
                   /\ last'.attacker = enemy
                   /\ last'.move.energy_cost <= enemy.energy
                   /\ last'.result # "lacked_energy"
              ELSE /\ ~last'.called
                   /\ player1_team' = player1_team
                   /\ player2_team' =
                         [player2_team EXCEPT ![p2_active[1]].energy =
                             Min(enemy.energy_max, enemy.energy + 5)]]_vars

\* C25 witness: in the second turn the enemy, whose moves cost 5 and whose
\* energy was 4, has passed and is at its energy_max of 6.
C25_Witness ==
    /\ mode = "1v3" /\ pc = "p1_check" /\ turn_count = 2
    /\ ~last.called
    /\ \A m \in DOMAIN MovesOf(player2_team[p2_active[1]].name) :
          MovesOf(player2_team[p2_active[1]].name)[m].energy_cost = 5
    /\ player2_team[p2_active[1]].energy = 6

LivingSlots(team, active) == {s \in DOMAIN active : team[active[s]].hp > 0}

ActionsOf(actions, player, idx) ==
    {i \in DOMAIN actions : actions[i].player = player /\ actions[i].idx = idx}

\* C26: in a battle_vgc turn no Pokemon and no active slot changes while the
\* actions are requested; when the requests are over exactly one action has
\* been taken from every living active slot of both players and none from
\* another slot; and a Pokemon changes only once the requests are over.
C26_SimultaneousSelection ==
    [][mode = "vgc" =>
          /\ Requesting => UNCHANGED <<player1_team, player2_team, p1_active, p2_active>>
          /\ (Requesting /\ pc' = "resolve") =>
                /\ \A s \in LivingSlots(player1_team, p1_active) :
                      Cardinality(ActionsOf(all_actions', 1, p1_active[s])) = 1
                /\ \A s \in LivingSlots(player2_team, p2_active) :
                      Cardinality(ActionsOf(all_actions', 2, p2_active[s])) = 1
                /\ Len(all_actions') = Cardinality(LivingSlots(player1_team, p1_active))
                                       + Cardinality(LivingSlots(player2_team, p2_active))
          /\ <<player1_team, player2_team>>' # <<player1_team, player2_team>> =>
                pc = "resolve"]_vars

\* C26 witness: the four requests of the first turn are over, one action
\* for each of the four active Pokemon, and no Pokemon has been touched.
C26_Witness ==
    /\ mode = "vgc" /\ pc = "resolve" /\ turn_count = 1
    /\ Len(all_actions) = 4
    /\ {<<all_actions[i].player, all_actions[i].idx>> : i \in 1 .. 4}
          = {<<1, p1_active[1]>>, <<1, p1_active[2]>>, <<2, p2_active[1]>>, <<2, p2_active[2]>>}
    /\ \A i \in DOMAIN player1_team : Untouched(player1_team[i])
    /\ \A i \in DOMAIN player2_team : Untouched(player2_team[i])

ActiveOfPlayer(player) == IF player = 1 THEN p1_active ELSE p2_active

\* C27: every action requested in a battle_vgc turn is resolved in the pass
\* of that turn according to its type: an attack and a status move both go
\* through perform_move for the Pokemon and the move of the action, a switch
\* puts the chosen Pokemon in the slot of the one that requested it, and a
\* pass changes no Pokemon and no slot.
C27_ResolutionCompleteness ==
    [][(mode = "vgc" /\ pc = "resolve" /\ all_actions # <<>>) =>
          LET action == Head(all_actions)
              pokemon == TeamOfPlayer(action.player)[action.idx]
          IN  /\ all_actions' = Tail(all_actions)
              /\ action.type \in {"attack", "status"} =>
                    /\ last'.called
                    /\ last'.attacker = pokemon
                    /\ last'.move = MovesOf(pokemon.name)[action.move]
              /\ action.type = "switch" =>
                    \E s \in DOMAIN ActiveOfPlayer(action.player) :
                        /\ ActiveOfPlayer(action.player)[s] = action.idx
                        /\ ActiveOfPlayer(action.player)'[s] = action.target
              /\ action.type = "pass" =>
                    UNCHANGED <<player1_team, player2_team, p1_active, p2_active>>]_vars

\* the end of a turn on the Pokemon of all the active slots of a team
EndOfTurnRanOnActive(before, after, active) ==
    /\ \A s \in DOMAIN active : EndOfTurnRan(before[active[s]], after[active[s]])
    /\ \A i \in DOMAIN before : i \notin Elems(active) => after[i] = before[i]

\* the slots of a team after the refill: a slot with a living Pokemon keeps
\* it, a slot with a fainted one holds a living Pokemon that was not active,
\* unless the team has no living Pokemon outside its slots
Refilled(team, before, after) ==
    /\ Len(after) = Len(before)
    /\ \A s \in DOMAIN before :
          IF team[before[s]].hp > 0
          THEN after[s] = before[s]
          ELSE \/ team[after[s]].hp > 0 /\ after[s] \notin Elems(before)
               \/ /\ after[s] = before[s]
                  /\ \A i \in DOMAIN team : team[i].hp > 0 => i \in Elems(after)

\* C28: in battle_vgc the two active slots of a player never hold the same
\* Pokemon; when the resolution pass is over the end of the turn runs on the
\* Pokemon of all the active slots of both players (status effects, then 3
\* energy each) and on no other; and before the first request of the next
\* turn every slot that holds a fainted Pokemon takes a living Pokemon of
\* its team that is not active, whenever there is one.
C28_EndOfTurnAndRefill ==
    /\ [](mode = "vgc" =>
             /\ Len(p1_active) = 2 => p1_active[1] # p1_active[2]
             /\ Len(p2_active) = 2 => p2_active[1] # p2_active[2])
    /\ [][mode = "vgc" =>
             /\ (pc = "resolve" /\ all_actions = <<>>) =>
                   /\ pc' = "top"
                   /\ UNCHANGED <<p1_active, p2_active>>
                   /\ EndOfTurnRanOnActive(player1_team, player1_team', p1_active)
                   /\ EndOfTurnRanOnActive(player2_team, player2_team', p2_active)
             /\ pc' = "top" => (pc = "resolve" /\ all_actions = <<>>)
             /\ pc' = "p1_slot1" =>
                   /\ pc = "top"
                   /\ UNCHANGED <<player1_team, player2_team>>
                   /\ Refilled(player1_team, p1_active, p1_active')
                   /\ Refilled(player2_team, p2_active, p2_active')]_vars

\* C28 witness: the second turn of a battle_vgc is about to request its
\* first action; a Pokemon that player 1 started with has fainted and its
\* slot holds another, living Pokemon.
C28_Witness ==
    /\ mode = "vgc" /\ pc = "p1_slot1" /\ turn_count = 2
    /\ Len(p1_active) = 2
    /\ \E s \in DOMAIN p1_active : p1_active[s] \notin {4, 2}
    /\ \E i \in {4, 2} : player1_team[i].hp = 0
    /\ \A s \in DOMAIN p1_active : player1_team[p1_active[s]].hp > 0

\* C29: in battle_pvp and battle_1v3 no reachable state has both teams
\* without a living Pokemon.
C29_BothFaintedOnlyInDoubles ==
    SingleActive => (AnyAlive(player1_team) \/ AnyAlive(player2_team))

LoopLeft == pc \in {"winner", "done"}

\* C30: in every format, when the battle loop has been left, by its
\* condition or by a break, at least one team has no living Pokemon.
C30_LoopLeftOnlyWhenFinished ==
    LoopLeft => (NoneAlive(player1_team) \/ NoneAlive(player2_team))

\* C30 witness: a single-active loop was left by a break in the middle of
\* its first turn, after a move was used: one team has a living Pokemon
\* and the other has none.
C30_Witness ==
    /\ mode \in {"pvp", "1v3"} /\ pc = "winner" /\ turn_count = 1
    /\ last.called
    /\ \/ AnyAlive(player1_team) /\ NoneAlive(player2_team)
       \/ NoneAlive(player1_team) /\ AnyAlive(player2_team)

\* what the answer a of the side at own_idx does, as the draws allow
Outcomes(own, opp, own_idx, opp_idx, a) ==
    {ExecuteAction(own, opp, own_idx, opp_idx, a, roll) :
        roll \in ActionRolls(own, own_idx, a)}

\* a cancelled action menu of the side at own_idx does what its "Pass" does:
\* 5 energy, capped, for the active Pokemon and nothing else
CancelIsPass(own, opp, own_idx, opp_idx) ==
    /\ cancel_action(own_idx) \in
          get_player_action(own, own_idx, Cardinality(AliveIndices(own)) > 1)
    /\ Outcomes(own, opp, own_idx, opp_idx, cancel_action(own_idx))
          = Outcomes(own, opp, own_idx, opp_idx, pass_action(own_idx))
    /\ \A x \in Outcomes(own, opp, own_idx, opp_idx, cancel_action(own_idx)) :
          /\ x.idx = own_idx /\ x.opp = opp /\ ~x.last.called
          /\ x.own = [own EXCEPT ![own_idx].energy =
                         Min(own[own_idx].energy_max, own[own_idx].energy + 5)]

\* the side whose forced-switch prompt is shown in this state: 1, 2 or 0
Prompted ==
    IF CheckedSide = 1 /\ ~alive(player1_team[p1_active[1]]) /\ AnyAlive(player1_team)
    THEN 1
    ELSE IF CheckedSide = 2 /\ ~alive(player2_team[p2_active[1]]) /\ AnyAlive(player2_team)
    THEN 2
    ELSE 0

\* C31: 'q' at an action request is a pass: in battle_pvp and battle_1v3 it
\* does exactly what "Pass" does (5 energy for the active Pokemon, nothing
\* else) and the turn goes on to the check of the other side; in battle_vgc
\* the action it returns is the one 'p' returns and the next slot is asked;
\* the loop is not left; and a cancelled forced-switch prompt returns a
\* living Pokemon of the team.
C31_CancelIsPass ==
    /\ []((SingleActive /\ pc = "p1_action") =>
             CancelIsPass(player1_team, player2_team, p1_active[1], p2_active[1]))
    /\ []((mode = "pvp" /\ pc = "p2_action") =>
             CancelIsPass(player2_team, player1_team, p2_active[1], p1_active[1]))
    /\ [](Requesting =>
             \A player \in {1, 2} : \A s \in DOMAIN ActiveOfPlayer(player) :
                 LET own == TeamOfPlayer(player)
                     idx == ActiveOfPlayer(player)[s]
                 IN  alive(own[idx]) =>
                        /\ vgc_cancel_action(player, idx) \in
                              get_vgc_action(player, own, TeamOfPlayer(3 - player),
                                             ActiveOfPlayer(player),
                                             ActiveOfPlayer(3 - player), s)
                        /\ vgc_cancel_action(player, idx) = vgc_pass_action(player, idx)
                        /\ vgc_cancel_action(player, idx).type = "pass")
    /\ [](Prompted # 0 =>
             /\ prompt_switch_cancelled(TeamOfPlayer(Prompted))
                   \in prompt_switch(TeamOfPlayer(Prompted))
             /\ alive(TeamOfPlayer(Prompted)[prompt_switch_cancelled(TeamOfPlayer(Prompted))]))
    /\ [][/\ (SingleActive /\ pc = "p1_action") => pc' \in {"p2_check", "enemy_check"}
          /\ (mode = "pvp" /\ pc = "p2_action") => pc' = "p1_check"
          /\ Requesting => pc' \in Elems(RequestOrder) \cup {"resolve"}
          /\ (mode = "vgc" /\ pc = "resolve" /\ all_actions # <<>>
              /\ Head(all_actions).type = "pass") =>
                /\ pc' = "resolve"
                /\ UNCHANGED <<player1_team, player2_team, p1_active, p2_active>>]_vars

\* C31 witness: in the second turn of a battle_1v3 the player, whose
\* Pokemon had paralysed the enemy with a move of cost 5 in the first turn
\* and stood at 4 energy, has answered the action menu with 'q' or "Pass":
\* no move was used, its energy is at the cap of 6 and the enemy is about to
\* be checked.
C31_Witness ==
    /\ mode = "1v3" /\ pc = "enemy_check" /\ turn_count = 2
    /\ ~last.called
    /\ "paralysis" \in DOMAIN player2_team[p2_active[1]].status
    /\ player1_team[p1_active[1]].energy = 6
    /\ cancel_action(p1_active[1]) = pass_action(p1_active[1])

\* a change of the active index of a single-active side: voluntary when the
\* step is the side's action, forced otherwise
SwitchedValidly(team_after, before, after, voluntary) ==
    after # before =>
        /\ after[1] \in DOMAIN team_after
        /\ team_after[after[1]].hp > 0
        /\ voluntary => after[1] # before[1]

\* a change of the active slots of a battle_vgc side
RefilledValidly(team_after, before, after) ==
    \A s \in DOMAIN after :
        after[s] # before[s] =>
            /\ after[s] \in DOMAIN team_after
            /\ team_after[after[s]].hp > 0
            /\ after[s] \notin Elems(before)
            /\ \A t \in DOMAIN after : t # s => after[t] # after[s]

HeapSlots ==
    {<<1, i, heap.team1[i]>> : i \in DOMAIN heap.team1}
    \cup {<<2, i, heap.team2[i]>> : i \in DOMAIN heap.team2}

\* C33: every Pokemon that pick_team creates starts with hp = max_hp,
\* energy = energy_max and an empty status; whatever battle operations run
\* on the Pokemon of the teams, every Pokemon of ROSTER keeps its hp, its
\* energy and its status; no two places of the teams hold the same object
\* or the same status dict, nor those of a Pokemon of ROSTER, the teams of
\* both players picked from the same roster entry included; and an
\* operation changes no object other than those it was called on.
C33_RosterIsolation ==
    /\ [](\A n \in DOMAIN ROSTER : Deref(heap, n) = ROSTER[n])
    /\ [](\A s \in HeapSlots : \A t \in HeapSlots :
             /\ s[3] \notin DOMAIN ROSTER
             /\ heap.objects[s[3]].status \notin
                   {heap.objects[n].status : n \in DOMAIN ROSTER}
             /\ s # t =>
                   /\ s[3] # t[3]
                   /\ heap.objects[s[3]].status # heap.objects[t[3]].status)
    /\ [][/\ \A id \in DOMAIN heap'.objects \ DOMAIN heap.objects :
                Untouched(Deref(heap', id))
          /\ heap'.picked # heap.picked =>
                \A i \in DOMAIN HeapTeam(heap', heap'.picked) :
                    /\ HeapTeam(heap', heap'.picked)[i] \notin DOMAIN heap.objects
                    /\ Untouched(Deref(heap', HeapTeam(heap', heap'.picked)[i]))
          /\ \A id \in DOMAIN heap.objects :
                id \notin heap'.touched => Deref(heap', id) = Deref(heap, id)]_vars

\* C33 witness: both players picked the second entry of ROSTER; player 2's
\* Pokemon has been hit and poisoned by player 1's, whose status is empty
\* and whose hp is full, and the entry of ROSTER is as it was.
C33_Witness ==
    /\ heap.picked = 2 /\ heap.team1 # <<>> /\ heap.team2 # <<>>
    /\ Deref(heap, heap.team1[1]).name = ROSTER[2].name
    /\ Deref(heap, heap.team2[1]).name = ROSTER[2].name
    /\ "poison" \in DOMAIN Deref(heap, heap.team2[1]).status
    /\ Deref(heap, heap.team2[1]).hp < ROSTER[2].max_hp
    /\ Deref(heap, heap.team1[1]).status = EmptyStatus
    /\ Deref(heap, heap.team1[1]).hp = ROSTER[2].max_hp
    /\ Untouched(Deref(heap, 2))

\* the slot of its side that an action was requested for
SlotOf(a) ==
    CHOOSE s \in DOMAIN ActiveOfPlayer(a.player) : ActiveOfPlayer(a.player)[s] = a.idx

\* C34: of two actions of a battle_vgc turn whose Pokemon have the same
\* speed, player 1's is resolved before player 2's, and of two of the same
\* player the one of slot 1 before the one of slot 2.
C34_SpeedTies ==
    Resolving =>
        \A i \in DOMAIN all_actions : \A j \in DOMAIN all_actions :
            (i < j /\ ActionSpd(all_actions[i]) = ActionSpd(all_actions[j])) =>
                \/ all_actions[i].player < all_actions[j].player
                \/ /\ all_actions[i].player = all_actions[j].player
                   /\ SlotOf(all_actions[i]) < SlotOf(all_actions[j])

\* C34 witness: the two active Pokemon of player 2 have the same speed, the
\* one of slot 1 standing later in the team than the one of slot 2, and
\* their actions wait to be resolved, the one of slot 1 first.
C34_Witness ==
    /\ Resolving /\ Len(all_actions) = 2
    /\ all_actions[1].player = 2 /\ all_actions[2].player = 2
    /\ ActionSpd(all_actions[1]) = ActionSpd(all_actions[2])
    /\ SlotOf(all_actions[1]) = 1 /\ SlotOf(all_actions[2]) = 2
    /\ all_actions[1].idx > all_actions[2].idx

\* C35: in battle_pvp, battle_1v3 and battle_vgc a Pokemon whose hp has
\* reached 0 keeps hp 0: no step of a battle, a move with a healing hook and
\* the end of a turn included, gives hp to a fainted Pokemon.
C35_NoRevival ==
    [][/\ \A i \in DOMAIN player1_team :
             player1_team[i].hp = 0 => player1_team'[i].hp = 0
       /\ \A i \in DOMAIN player2_team :
             player2_team[i].hp = 0 => player2_team'[i].hp = 0]_vars

\* C36: in battle_pvp, battle_1v3 and battle_vgc the attacker of every call
\* of perform_move has hp > 0 when the call is made; in battle_vgc a Pokemon
\* that fainted earlier in the resolution pass does not use its queued move.
C36_FaintedNeverActs ==
    (mode \in {"pvp", "1v3", "vgc"} /\ last.called) => last.attacker.hp > 0

\* C37: in battle_pvp, battle_1v3 and battle_vgc the defender of every call
\* of perform_move has hp > 0 when the call is made, on the turn after the
\* end of a turn took the last hp of an active Pokemon and for a target that
\* fainted earlier in the resolution pass of battle_vgc included.
C37_DefenderIsAlive ==
    (mode \in {"pvp", "1v3", "vgc"} /\ last.called) => last.defender.hp > 0

(***************************************************************************)
(* Order of damage and hook in perform_move.                               *)
(***************************************************************************)
\* the damage compute_damage gives the move of the last call between a and d
DamageBetween(a, d) ==
    compute_damage(a, d, last.move, last.roll.variance, last.roll.crit).dmg

\* the last call used a damaging move that has an effect
DamagingHookUsed ==
    /\ last.called /\ last.result = "used"
    /\ last.move.category # "status" /\ last.move.power > 0
    /\ last.move.effect.fn # "none"

\* C38: a damaging move with an effect deals the damage of the formula on
\* the statuses attacker and defender had before the effect ran, the defender
\* loses it on top of what the effect left, and the statuses the effect
\* wrote are on the Pokemon after the call, where the next move reads them
C38_DamageBeforeHook ==
    DamagingHookUsed =>
        /\ last.computed /\ last.hooked
        /\ last.formula = DamageBetween(last.attacker, last.defender)
        /\ last.defender_after.hp = Max(0, last.hook_hp - last.formula)
        /\ last.attacker_after.status =
               CallEffect(last.move.effect, last.attacker, last.defender).atk_p.status
        /\ last.defender_after.status =
               CallEffect(last.move.effect, last.attacker, last.defender).def_p.status

\* a move that lowers the defender's defense by 42 hits with the damage of
\* the unlowered defense, and the same move on the Pokemon it left hits harder
C38_Witness ==
    /\ DamagingHookUsed
    /\ last.move.effect = Effect("def_lower", "def_p", 42, 4)
    /\ last.defender.hp = 1943 /\ last.defender.status = EmptyStatus
    /\ last.formula = DamageBetween(last.attacker, last.defender)
    /\ last.defender_after.hp = 1943 - last.formula
    /\ def_effective(last.defender_after) = def_effective(last.defender) - 42
    /\ DamageBetween(last.attacker_after, last.defender_after) > last.formula

(***************************************************************************)
(* Frame of the end of a turn.                                             *)
(***************************************************************************)
\* the step about to be taken is the end-of-turn processing of the format
AtEndOfTurn ==
    \/ mode \in {"pvp", "1v3"} /\ pc = "end_of_turn"
    \/ mode = "vgc" /\ pc = "resolve" /\ all_actions = <<>>

\* the Pokemon of a team that are in no active slot before or after a step
\* are left as they were
BenchFrame(before, after, active_before, active_after) ==
    /\ Len(after) = Len(before)
    /\ \A i \in DOMAIN before :
          i \notin Elems(active_before) \cup Elems(active_after) =>
             after[i] = before[i]

\* a fainted Pokemon keeps its hp and its status
FaintedFrame(before, after) ==
    \A i \in DOMAIN before :
        before[i].hp = 0 =>
           after[i].hp = 0 /\ after[i].status = before[i].status

\* C39: no step of a battle changes the hp, the energy or the status of a
\* Pokemon that is on the bench before and after it, so a whole turn leaves
\* a Pokemon that stays benched as it was; the end-of-turn processing
\* (apply_end_of_turn and the 3 energy) changes Pokemon of the active slots
\* only, and leaves the hp and the status of a fainted Pokemon as they were
C39_EndOfTurnFrame ==
    [][(mode = "pvp" \/ mode = "1v3" \/ mode = "vgc") =>
          /\ BenchFrame(player1_team, player1_team', p1_active, p1_active')
          /\ BenchFrame(player2_team, player2_team', p2_active, p2_active')
          /\ AtEndOfTurn =>
                /\ UNCHANGED <<p1_active, p2_active>>
                /\ FaintedFrame(player1_team, player1_team')
                /\ FaintedFrame(player2_team, player2_team')]_vars

\* C39 witness: in a battle_pvp player 2's first Pokemon was burned for two
\* turns in turn 1 and switched out; after the ends of turns 1 and 2 it is on
\* the bench with the hp the hit left, full energy and both turns of burn
C39_Witness ==
    /\ mode = "pvp" /\ pc = "top" /\ turn_count = 3
    /\ p2_active[1] # 1
    /\ player2_team[1].name = "Moss"
    /\ player2_team[1].hp = 1 /\ player2_team[1].energy = 6
    /\ player2_team[1].status = Put(EmptyStatus, "burn", [dmg |-> 1, turns |-> 2])
    /\ player2_team[p2_active[1]].energy < 6

(***************************************************************************)
(* Speed statuses in battle_vgc.  Two states that differ in the speed      *)
(* statuses only are equal once these are removed.  A step of battle_vgc   *)
(* that gives on the state without them what it gives on the state with    *)
(* them keeps two such runs in step: same actions offered, same order of   *)
(* resolution, same hp, energy and other statuses.                         *)
(***************************************************************************)
SpeedKeys == {"spd_up", "spd_up_amt", "spd_down", "spd_down_amt"}

WithoutSpeedStatus(p) ==
    [p EXCEPT !.status = [k \in (DOMAIN p.status) \ SpeedKeys |-> p.status[k]]]

TeamWithoutSpeedStatus(team) == [i \in DOMAIN team |-> WithoutSpeedStatus(team[i])]

\* the actions are in descending order of the spd field of their Pokemon,
\* those of one spd in the order of the requests
InBaseSpeedOrder(actions) ==
    \A i \in DOMAIN actions : \A j \in DOMAIN actions :
        i < j =>
           LET pi == TeamOfPlayer(actions[i].player)[actions[i].idx]
               pj == TeamOfPlayer(actions[j].player)[actions[j].idx]
           IN  \/ pi.spd > pj.spd
               \/ /\ pi.spd = pj.spd
                  /\ \/ actions[i].player < actions[j].player
                     \/ /\ actions[i].player = actions[j].player
                        /\ SlotOf(actions[i]) < SlotOf(actions[j])

\* the Pokemon of an active slot that carries a speed status
HasSpeedStatus(p) == (DOMAIN p.status) \cap SpeedKeys # {}

\* C40: in battle_vgc the speed statuses of the Pokemon change neither the
\* actions a slot is offered, nor the order in which the queued actions are
\* resolved, which is the descending order of spd with ties in request
\* order, nor what perform_move and the end of the turn leave apart from the
\* speed statuses themselves: hp, energy and the other statuses are those of
\* the same step taken on the Pokemon without their speed statuses.
C40_SpeedStatusesInert ==
    [][mode = "vgc" =>
          /\ pc = "top" =>
                /\ p1_active' = IF pc' = "winner" THEN p1_active
                                ELSE Refill(TeamWithoutSpeedStatus(player1_team), p1_active)
                /\ p2_active' = IF pc' = "winner" THEN p2_active
                                ELSE Refill(TeamWithoutSpeedStatus(player2_team), p2_active)
          /\ (pc \in Elems(RequestOrder) /\ Len(all_actions') > Len(all_actions)) =>
                \E a \in get_vgc_action(
                            IF RequestAt(pc) <= 2 THEN 1 ELSE 2,
                            TeamWithoutSpeedStatus(TeamOfPlayer(IF RequestAt(pc) <= 2 THEN 1 ELSE 2)),
                            TeamWithoutSpeedStatus(TeamOfPlayer(IF RequestAt(pc) <= 2 THEN 2 ELSE 1)),
                            ActiveOfPlayer(IF RequestAt(pc) <= 2 THEN 1 ELSE 2),
                            ActiveOfPlayer(IF RequestAt(pc) <= 2 THEN 2 ELSE 1),
                            IF RequestAt(pc) \in {1, 3} THEN 1 ELSE 2) :
                    \E i \in DOMAIN all_actions' : all_actions'[i] = a
          /\ pc' = "resolve" => InBaseSpeedOrder(all_actions')
          /\ (pc = "resolve" /\ all_actions # <<>> /\ last'.called) =>
                LET action == Head(all_actions)
                    r == perform_move(WithoutSpeedStatus(last'.attacker),
                                      WithoutSpeedStatus(last'.defender),
                                      last'.move, last'.roll)
                IN  /\ last'.roll \in Rolls(WithoutSpeedStatus(last'.attacker), last'.move)
                    /\ last'.result = r.result
                    /\ WithoutSpeedStatus(last'.attacker_after) = WithoutSpeedStatus(r.attacker)
                    /\ WithoutSpeedStatus(last'.defender_after) = WithoutSpeedStatus(r.defender)
                    /\ (IF action.player = 1 THEN player1_team' ELSE player2_team')[action.idx]
                          = last'.attacker_after
                    /\ (IF action.player = 1 THEN player2_team' ELSE player1_team')[action.target]
                          = last'.defender_after
          /\ (pc = "resolve" /\ all_actions = <<>>) =>
                /\ TeamWithoutSpeedStatus(player1_team') =
                      TeamWithoutSpeedStatus(
                         EndOfTurnAll(TeamWithoutSpeedStatus(player1_team), p1_active))
                /\ TeamWithoutSpeedStatus(player2_team') =
                      TeamWithoutSpeedStatus(
                         EndOfTurnAll(TeamWithoutSpeedStatus(player2_team), p2_active))]_vars

\* C40 witness: the resolution pass is at its first action; player 1's Bull
\* (spd 2) carries a speed status of 2 and player 2's Moss (spd 3) none; both
\* attack, and Moss's action is the one resolved first
C40_Witness ==
    /\ mode = "vgc" /\ pc = "resolve" /\ turn_count = 2
    /\ Len(all_actions) = 4
    /\ player1_team[2].name = "Bull" /\ player2_team[1].name = "Moss"
    /\ Get(player1_team[2].status, "spd_up_amt", 0) = 2
    /\ ~HasSpeedStatus(player2_team[1])
    /\ all_actions[1].player = 2 /\ all_actions[1].idx = 1
    /\ all_actions[1].type = "attack"
    /\ all_actions[2].player = 1 /\ all_actions[2].idx = 2
    /\ all_actions[2].type = "attack"
====
